---- MODULE Spec2Model ----
(***************************************************************************)
(* Teammate Reputation System: the rating store, the handlers that write   *)
(* it (src/app.py) and the reputation engine that reads it                 *)
(* (src/models.py: trust propagation and weighted aggregation).            *)
(*                                                                         *)
(* Numbers.  The engine computes in IEEE doubles.  Here                    *)
(*   - a local trust, an edge weight, a per-rater mean and a weighted      *)
(*     average are exact rationals <<n, d>> in lowest terms, d > 0;        *)
(*   - a trust score is a fixed-point integer in units of 1/Scale, every   *)
(*     product rounded down to that grid (the model's rounding error, in   *)
(*     place of the double's);                                             *)
(*   - contribution_avg and communication_avg, which the code rounds to    *)
(*     two decimals, are integers in hundredths.                           *)
(***************************************************************************)
EXTENDS Integers, Sequences, FiniteSets, TLC

\* ------------------------------------------------------------------ bounds
\* Resolution of a trust score: one unit is 1/Scale.
Scale == 40000
\* Rows the persistence-level specification (EngineSpec) appends to a table.
MaxRows == 2
\* Rating rows the handler-level specification (Spec) lets the table hold.
MaxRatings == 2
\* Lobbies created under Spec.
MaxLobbies == 1
\* Join-request rows created under Spec.
MaxJoinRequests == 2
\* Invitation rows created under MemberSpec.
MaxInvitations == 2

\* The user table holds at most this many rows.
MaxUsers == 4

\* --------------------------------------------------------- program constants
\* damping = 0.85 = DampNum / DampDen
DampNum == 17
DampDen == 20
\* max_iter
MaxIter == 50
\* A NULL user id (user ids are positive autoincrement keys).
NoUser == 0
\* A local trust is a multiple of 1/30: (c/10 + k/10 + w) / 3.
LocalDen == 30

\* The user ids of the model (seed_users creates the users of a fresh
\* database) and the team ids a directly written row may carry.
UserIds == {1, 2, 3}
TeamIds == {1, 2}

\* An optional column value: None, or Some(v).
None == << >>
Some(v) == << v >>

\* ----------------------------------------------------------- arithmetic
Abs(x) == IF x < 0 THEN -x ELSE x

RECURSIVE GCD(_, _)
GCD(a, b) == IF b = 0 THEN a ELSE GCD(b, a % b)

\* The rational n/d (d # 0) in lowest terms with a positive denominator.
Rat(n, d) ==
  LET g == GCD(Abs(n), Abs(d))
      s == IF d < 0 THEN -1 ELSE 1
  IN  << (s * n) \div g, (s * d) \div g >>

RZero == << 0, 1 >>
RAdd(x, y) == Rat(x[1] * y[2] + y[1] * x[2], x[2] * y[2])
RMul(x, y) == Rat(x[1] * y[1], x[2] * y[2])
RDiv(x, y) == Rat(x[1] * y[2], x[2] * y[1])
RLe(x, y) == x[1] * y[2] <= y[1] * x[2]

\* The only element of a singleton set.
The(S) == CHOOSE x \in S : TRUE

\* The function f on S as an explicit table (a dict or list of the code):
\* every value computed once, here.
RECURSIVE Table(_, _)
Table(f, S) ==
  IF S = {} THEN << >>
  ELSE LET x == CHOOSE y \in S : TRUE IN (x :> f[x]) @@ Table(f, S \ {x})

RECURSIVE SumOver(_, _)
SumOver(f, S) ==
  IF S = {} THEN 0
  ELSE LET x == CHOOSE y \in S : TRUE IN f[x] + SumOver(f, S \ {x})

RECURSIVE RSumOver(_, _)
RSumOver(f, S) ==
  IF S = {} THEN RZero
  ELSE LET x == CHOOSE y \in S : TRUE IN RAdd(f[x], RSumOver(f, S \ {x}))

\* round(x, 2) of the rational x, in hundredths (ties to even).
round2(x) ==
  LET q == x[1] \div x[2]
      r == x[1] % x[2]
      h == (100 * r) \div x[2]
      rem == (100 * r) % x[2]
      up == \/ 2 * rem > x[2]
            \/ (2 * rem = x[2] /\ (100 * q + h) % 2 = 1)
  IN  100 * q + h + (IF up THEN 1 ELSE 0)

\* -------------------------------------------------------------- normalizer
\* A variant of _clamp01 without the upper bound.
clamp01_lower_only(tenths) == IF tenths < 0 THEN 0 ELSE tenths

\* _clamp01, on tenths: the argument and the result are multiples of 1/10.
clamp01(tenths) == IF tenths < 0 THEN 0 ELSE IF tenths > 10 THEN 10 ELSE tenths

\* _normalize_0_to_10(value), in tenths; value is None or Some(integer).
normalize_0_to_10(value) == IF value = None THEN 0 ELSE clamp01(value[1])

\* local = (contrib_n + comm_n + wwa_n) / 3.0, as a multiple of 1/LocalDen.
local(row) ==
  normalize_0_to_10(row.contribution) + normalize_0_to_10(row.communication)
  + (IF row.would_work_again THEN 10 ELSE 0)

\* ---------------------------------------------------------- edge collapser
\* A variant that keeps the rows whose local trust is 0.
skip_row_keeps_zero(row, us) ==
  \/ row.rater_id = NoUser \/ row.target_user_id = NoUser
  \/ row.rater_id = row.target_user_id
  \/ row.rater_id \notin us \/ row.target_user_id \notin us

\* A variant that keeps self-ratings.
skip_row_keeps_self(row, us) ==
  \/ row.rater_id = NoUser \/ row.target_user_id = NoUser
  \/ row.rater_id \notin us \/ row.target_user_id \notin us
  \/ local(row) <= 0

\* The rows the collapsing loop passes over (its `continue`s).
skip_row(row, us) ==
  \/ row.rater_id = NoUser \/ row.target_user_id = NoUser
  \/ row.rater_id = row.target_user_id
  \/ row.rater_id \notin us \/ row.target_user_id \notin us
  \/ local(row) <= 0

\* The loop over the rating rows: pair_sum and pair_count keyed by
\* (rater, target), 0 where the dict has no key.
RECURSIVE collapse_rows(_, _, _, _)
collapse_rows(rows, us, k, acc) ==
  IF k > Len(rows) THEN acc
  ELSE LET row == rows[k]
           key == << row.rater_id, row.target_user_id >>
       IN  The({ collapse_rows(rows, us, k + 1, a) :
                 a \in { IF skip_row(row, us) THEN acc
                         ELSE [ pair_sum   |-> [acc.pair_sum EXCEPT ![key] = @ + local(row)],
                                pair_count |-> [acc.pair_count EXCEPT ![key] = @ + 1] ] } })

collapse(rows, us) ==
  collapse_rows(rows, us, 1,
                [ pair_sum   |-> Table([p \in us \X us |-> 0], us \X us),
                  pair_count |-> Table([p \in us \X us |-> 0], us \X us) ])

\* A variant that sums the rows of a pair instead of averaging them.
edge_weight_summed(s, c) == Rat(s, LocalDen)

\* c_ij = s / float(pair_count[(i, j)])
edge_weight(s, c) == Rat(s, LocalDen * c)

\* outgoing_by_idx: the collapsed edges, (i, j) -> c_ij, only for the pairs
\* of pair_sum.
outgoing_by_idx(rows, us) ==
  The({ Table([ p \in us \X us |-> edge_weight(col.pair_sum[p], col.pair_count[p]) ],
              { q \in us \X us : col.pair_count[q] > 0 }) :
        col \in { collapse(rows, us) } })

\* outgoing_sum[i]
outgoing_sum(edges, us) ==
  The({ Table([ i \in us |-> RSumOver(e, { p \in DOMAIN e : p[1] = i }) ], us) :
        e \in { edges } })

\* ---------------------------------------------------------- trust iterator
\* A variant that leaves the vector as the iteration produced it.
renormalize_skipped(t, us) == t

\* total = sum(t); t = [x / total for x in t] when total > 0
renormalize(t, us) ==
  The({ IF total > 0 THEN Table([ i \in us |-> (t[i] * Scale) \div total ], us) ELSE t :
        total \in { SumOver(t, us) } })

\* A variant of the pass that sends nothing along the edges.
power_step_without_flow(t, us, edges, osum) ==
  LET n == Cardinality(us)
      base == Scale \div n
      dangling_mass == SumOver([ i \in us |-> IF osum[i][1] <= 0 THEN t[i] ELSE 0 ], us)
      share == IF dangling_mass # 0
               THEN (DampNum * dangling_mass) \div (DampDen * n) ELSE 0
  IN  The({ Table([ j \in us |-> ((DampDen - DampNum) * base) \div DampDen + sh ], us) :
            sh \in { share } })

\* A variant of the pass without the personalization share.
power_step_without_base(t, us, edges, osum) ==
  LET n == Cardinality(us)
      dangling_mass == SumOver([ i \in us |-> IF osum[i][1] <= 0 THEN t[i] ELSE 0 ], us)
      share == IF dangling_mass # 0
               THEN (DampNum * dangling_mass) \div (DampDen * n) ELSE 0
      flow(i, j) ==
        IF osum[i][1] <= 0 \/ t[i] = 0 \/ << i, j >> \notin DOMAIN edges THEN 0
        ELSE LET ratio == RDiv(edges[<< i, j >>], osum[i])
             IN  (DampNum * ratio[1] * t[i]) \div (DampDen * ratio[2])
  IN  The({ Table([ j \in us |-> sh + SumOver([ i \in us |-> flow(i, j) ], us) ], us) :
            sh \in { share } })

\* One pass of the loop body: new_t from t.
power_step(t, us, edges, osum) ==
  LET n == Cardinality(us)
      base == Scale \div n
      dangling_mass == SumOver([ i \in us |-> IF osum[i][1] <= 0 THEN t[i] ELSE 0 ], us)
      share == IF dangling_mass # 0
               THEN (DampNum * dangling_mass) \div (DampDen * n) ELSE 0
      flow(i, j) ==
        IF osum[i][1] <= 0 \/ t[i] = 0 \/ << i, j >> \notin DOMAIN edges THEN 0
        ELSE LET ratio == RDiv(edges[<< i, j >>], osum[i])
             IN  (DampNum * ratio[1] * t[i]) \div (DampDen * ratio[2])
  IN  The({ Table([ j \in us |->
                      ((DampDen - DampNum) * base) \div DampDen + sh
                      + SumOver([ i \in us |-> flow(i, j) ], us) ], us) :
            sh \in { share } })

\* The pass on exact fractions, the sums and products of the loop body
\* without the rounding of the grid: t and new_t map a user to << n, d >>.
\* A variant that leaves the dangling share out.
power_step_exact_without_share(t, us, edges, osum) ==
  LET n == Cardinality(us)
      base == Rat(1, n)
      flow(i, j) ==
        IF osum[i][1] <= 0 \/ t[i] = RZero \/ << i, j >> \notin DOMAIN edges THEN RZero
        ELSE RMul(RMul(Rat(DampNum, DampDen), RDiv(edges[<< i, j >>], osum[i])), t[i])
  IN  Table([ j \in us |->
                RAdd(RMul(Rat(DampDen - DampNum, DampDen), base),
                     RSumOver([ i \in us |-> flow(i, j) ], us)) ], us)

power_step_exact(t, us, edges, osum) ==
  LET n == Cardinality(us)
      base == Rat(1, n)
      dangling_mass == RSumOver([ i \in us |-> IF osum[i][1] <= 0 THEN t[i] ELSE RZero ], us)
      share == IF dangling_mass # RZero
               THEN RMul(Rat(DampNum, DampDen), RDiv(dangling_mass, Rat(n, 1))) ELSE RZero
      flow(i, j) ==
        IF osum[i][1] <= 0 \/ t[i] = RZero \/ << i, j >> \notin DOMAIN edges THEN RZero
        ELSE RMul(RMul(Rat(DampNum, DampDen), RDiv(edges[<< i, j >>], osum[i])), t[i])
  IN  The({ Table([ j \in us |->
                      RAdd(RAdd(RMul(Rat(DampDen - DampNum, DampDen), base), sh),
                           RSumOver([ i \in us |-> flow(i, j) ], us)) ], us) :
            sh \in { share } })

\* for _ in range(max_iter): ... if diff < tol: break
\* tol = 1e-10 is below 1/Scale, so diff < tol is diff = 0 on the grid.
\* A variant of the loop without its break.
RECURSIVE iterate_without_break(_, _, _, _, _)
iterate_without_break(st, us, edges, osum, left) ==
  IF left = 0 THEN st
  ELSE IF left = 1
  THEN The({ [ t    |-> new_t,
               done |-> SumOver([ i \in us |-> Abs(new_t[i] - old_t[i]) ], us) = 0,
               passes |-> st.passes + 1 ] :
             new_t \in { power_step(st.t, us, edges, osum) }, old_t \in { st.t } })
  ELSE The({ iterate_without_break(mid, us, edges, osum, left - left \div 2) :
             mid \in { iterate_without_break(st, us, edges, osum, left \div 2) } })

\* The loop state is the vector, whether the loop has broken out and the
\* number of passes made; `left` passes are run as the first half of them
\* and then the rest.
RECURSIVE iterate(_, _, _, _, _)
iterate(st, us, edges, osum, left) ==
  IF left = 0 \/ st.done THEN st
  ELSE IF left = 1
  THEN The({ [ t    |-> new_t,
               done |-> SumOver([ i \in us |-> Abs(new_t[i] - old_t[i]) ], us) = 0,
               passes |-> st.passes + 1 ] :
             new_t \in { power_step(st.t, us, edges, osum) }, old_t \in { st.t } })
  ELSE The({ iterate(mid, us, edges, osum, left - left \div 2) :
             mid \in { iterate(st, us, edges, osum, left \div 2) } })

\* User.compute_transitive_trust_scores(): user id -> trust, in 1/Scale.
compute_transitive_trust_scores(rows, us) ==
  IF us = {} THEN << >>
  ELSE The({ renormalize(t, us) :
             t \in { The({ iterate([ t |-> t0, done |-> FALSE, passes |-> 0 ], us, edges, osum, MaxIter).t :
                           t0 \in { Table([ i \in us |-> Scale \div Cardinality(us) ], us) },
                           osum \in { outgoing_sum(edges, us) } }) :
                     edges \in { outgoing_by_idx(rows, us) } } })

\* ------------------------------------------------------ reputation aggregator
empty_bucket ==
  [ contrib_sum |-> 0, contrib_n |-> 0, comm_sum |-> 0, comm_n |-> 0,
    wwa_sum |-> 0, wwa_n |-> 0 ]

\* A variant in which a rater's latest row replaces the earlier ones.
add_to_bucket_last_wins(bucket, row) ==
  [ contrib_sum |-> IF row.contribution # None THEN row.contribution[1] ELSE 0,
    contrib_n   |-> IF row.contribution # None THEN 1 ELSE 0,
    comm_sum    |-> IF row.communication # None THEN row.communication[1] ELSE 0,
    comm_n      |-> IF row.communication # None THEN 1 ELSE 0,
    wwa_sum     |-> IF row.would_work_again THEN 1 ELSE 0,
    wwa_n       |-> 1 ]

\* One row added to its rater's bucket.
add_to_bucket(bucket, row) ==
  [ contrib_sum |-> bucket.contrib_sum
                    + (IF row.contribution # None THEN row.contribution[1] ELSE 0),
    contrib_n   |-> bucket.contrib_n + (IF row.contribution # None THEN 1 ELSE 0),
    comm_sum    |-> bucket.comm_sum
                    + (IF row.communication # None THEN row.communication[1] ELSE 0),
    comm_n      |-> bucket.comm_n + (IF row.communication # None THEN 1 ELSE 0),
    wwa_sum     |-> bucket.wwa_sum + (IF row.would_work_again THEN 1 ELSE 0),
    wwa_n       |-> bucket.wwa_n + 1 ]

\* A variant of the query without its filter on the target.
bucket_row_any_target(row, target) == row.rater_id # NoUser

\* The rows of the query (target_user_id == self.id) that the loop buckets
\* (rater_id is not None).
bucket_row(row, target) ==
  row.target_user_id = target /\ row.rater_id # NoUser

\* by_rater: rater id -> bucket, over the rows rating `target`.
RECURSIVE by_rater_rows(_, _, _, _)
by_rater_rows(rows, target, k, acc) ==
  IF k > Len(rows) THEN acc
  ELSE LET row == rows[k]
           r == row.rater_id
           old == IF r \in DOMAIN acc THEN acc[r] ELSE empty_bucket
       IN  The({ by_rater_rows(rows, target, k + 1, a) :
                 a \in { IF ~bucket_row(row, target) THEN acc
                         ELSE Table([ x \in DOMAIN acc \cup {r} |->
                                        IF x = r THEN add_to_bucket(old, row) ELSE acc[x] ],
                                    DOMAIN acc \cup {r}) } })

by_rater(rows, target) == by_rater_rows(rows, target, 1, << >>)

\* A variant that weighs a rater by the number of rows that rater wrote.
rater_weight_per_row(trust_scores, rater_id, bucket) ==
  (IF rater_id \in DOMAIN trust_scores THEN trust_scores[rater_id] ELSE 0) * bucket.wwa_n

\* w = float(trust_scores.get(rater_id, 0.0))
rater_weight(trust_scores, rater_id, bucket) ==
  IF rater_id \in DOMAIN trust_scores THEN trust_scores[rater_id] ELSE 0

\* A variant that does not divide by the sum of the weights.
emit_avg_undivided(num, den) ==
  IF den = 0 THEN 0 ELSE round2(num)

\* round(float(num / den), 2) when den, else 0.0: in hundredths.
emit_avg(num, den) ==
  IF den = 0 THEN 0 ELSE round2(RDiv(num, << den, 1 >>))

\* user.reputation(trust_scores=trust_scores) over the rating rows.
reputation(rows, target, trust_scores) ==
  The({ LET w(r) == rater_weight(ts, r, b[r])
            raters == { r \in DOMAIN b : w(r) > 0 }
            with_contrib == { r \in raters : b[r].contrib_n # 0 }
            with_comm == { r \in raters : b[r].comm_n # 0 }
            contrib_num == RSumOver([ r \in with_contrib |->
                              RMul(<< w(r), 1 >>, Rat(b[r].contrib_sum, b[r].contrib_n)) ],
                              with_contrib)
            contrib_den == SumOver([ r \in with_contrib |-> w(r) ], with_contrib)
            comm_num == RSumOver([ r \in with_comm |->
                              RMul(<< w(r), 1 >>, Rat(b[r].comm_sum, b[r].comm_n)) ],
                              with_comm)
            comm_den == SumOver([ r \in with_comm |-> w(r) ], with_comm)
            wwa_num == RSumOver([ r \in raters |->
                              RMul(<< w(r), 1 >>, Rat(b[r].wwa_sum, b[r].wwa_n)) ],
                              raters)
            wwa_den == SumOver([ r \in raters |-> w(r) ], raters)
        IN  [ contribution_avg |-> emit_avg(contrib_num, contrib_den),
              communication_avg |-> emit_avg(comm_num, comm_den),
              would_work_again_ratio |->
                IF wwa_den # 0 THEN RDiv(wwa_num, << wwa_den, 1 >>) ELSE None,
              rating_count |->
                Cardinality({ k \in 1..Len(rows) : rows[k].target_user_id = target }) ] :
        b \in { by_rater(rows, target) }, ts \in { trust_scores } })

\* ------------------------------------------------------------ overall score
\* _normalize_0_to_10 of an average held in hundredths: clamp(avg / 10, 0, 1).
normalize_0_to_10_avg(h) ==
  Rat(IF h < 0 THEN 0 ELSE IF h > 1000 THEN 1000 ELSE h, 1000)

\* A variant that takes the ratio as it comes.
clamp_ratio_unclamped(w) == IF w = None THEN RZero ELSE w

\* wwa = float(wwa_raw) if wwa_raw is not None else 0.0, then cut to 0..1.
clamp_ratio(w) ==
  IF w = None THEN RZero
  ELSE IF w[1] < 0 THEN RZero
  ELSE IF w[1] > w[2] THEN << 1, 1 >>
  ELSE w

\* _rep_overall_score_0_to_10(rep), in hundredths; rep is None (no dict) or
\* Some(reputation dict).
rep_overall_score_0_to_10(rep) ==
  IF rep = None THEN 0
  ELSE LET contrib == normalize_0_to_10_avg(rep[1].contribution_avg)
           comm == normalize_0_to_10_avg(rep[1].communication_avg)
           wwa == clamp_ratio(rep[1].would_work_again_ratio)
       IN  round2(RMul(<< 10, 3 >>, RAdd(RAdd(contrib, comm), wwa)))


\* ------------------------------------------------------------ graph document
\* A variant of the loop's `continue`s that keeps self-ratings.
graph_skip_row_keeps_self(row) ==
  \/ row.rater_id = NoUser \/ row.target_user_id = NoUser
  \/ local(row) <= 0

\* The rows the loop of api_graph passes over: a NULL end, a self-rating,
\* local trust 0. (The ids are not looked up in the user table.)
graph_skip_row(row) ==
  \/ row.rater_id = NoUser \/ row.target_user_id = NoUser
  \/ row.rater_id = row.target_user_id
  \/ local(row) <= 0

\* The eight pair_* dicts of api_graph for one key, before its first row.
empty_pair ==
  [ local_sum |-> 0, local_count |-> 0, contrib_sum |-> 0, contrib_n |-> 0,
    comm_sum |-> 0, comm_n |-> 0, wwa_sum |-> 0, wwa_n |-> 0 ]

\* A variant that counts a row once more than it should.
add_to_pair_counting_twice(pair, row) ==
  [ pair EXCEPT !.local_sum = @ + local(row), !.local_count = @ + 2,
                !.wwa_n = @ + 1 ]

\* One row added to the dicts under its key.
add_to_pair(pair, row) ==
  [ local_sum |-> pair.local_sum + local(row),
    local_count |-> pair.local_count + 1,
    contrib_sum |-> pair.contrib_sum + (IF row.contribution # None THEN row.contribution[1] ELSE 0),
    contrib_n |-> pair.contrib_n + (IF row.contribution # None THEN 1 ELSE 0),
    comm_sum |-> pair.comm_sum + (IF row.communication # None THEN row.communication[1] ELSE 0),
    comm_n |-> pair.comm_n + (IF row.communication # None THEN 1 ELSE 0),
    wwa_sum |-> pair.wwa_sum + (IF row.would_work_again THEN 1 ELSE 0),
    wwa_n |-> pair.wwa_n + 1 ]

\* The loop over the rows: the dicts as one function key -> sums, and the
\* keys in the order they were first written (the order of .items()).
RECURSIVE graph_pairs(_, _, _)
graph_pairs(rows, k, acc) ==
  IF k > Len(rows) THEN acc
  ELSE LET row == rows[k]
           key == << row.rater_id, row.target_user_id >>
           old == IF key \in DOMAIN acc.pair THEN acc.pair[key] ELSE empty_pair
       IN  The({ graph_pairs(rows, k + 1, a) :
                 a \in { IF graph_skip_row(row) THEN acc
                         ELSE [ pair |-> Table([ x \in DOMAIN acc.pair \cup { key } |->
                                                   IF x = key THEN add_to_pair(old, row)
                                                   ELSE acc.pair[x] ],
                                                DOMAIN acc.pair \cup { key }),
                                keys |-> IF key \in DOMAIN acc.pair THEN acc.keys
                                         ELSE Append(acc.keys, key) ] } })


\* A variant of the entry whose weight is the sum of the pair's locals.
graph_edge_summed(key, pair) ==
  [ source |-> key[1], target |-> key[2],
    weight |-> Rat(pair.local_sum, LocalDen),
    count |-> pair.local_count,
    contribution_avg |->
      IF pair.contrib_n # 0 THEN Some(Rat(pair.contrib_sum, pair.contrib_n)) ELSE None,
    communication_avg |->
      IF pair.comm_n # 0 THEN Some(Rat(pair.comm_sum, pair.comm_n)) ELSE None,
    would_work_again_ratio |-> Rat(pair.wwa_sum, IF pair.wwa_n # 0 THEN pair.wwa_n ELSE 1) ]

\* One entry of edges.
graph_edge(key, pair) ==
  [ source |-> key[1], target |-> key[2],
    weight |-> Rat(pair.local_sum, LocalDen * pair.local_count),
    count |-> pair.local_count,
    contribution_avg |->
      IF pair.contrib_n # 0 THEN Some(Rat(pair.contrib_sum, pair.contrib_n)) ELSE None,
    communication_avg |->
      IF pair.comm_n # 0 THEN Some(Rat(pair.comm_sum, pair.comm_n)) ELSE None,
    would_work_again_ratio |-> Rat(pair.wwa_sum, IF pair.wwa_n # 0 THEN pair.wwa_n ELSE 1) ]

\* The "edges" list of the /api/graph document over the rating rows.
api_graph_edges(rows) ==
  The({ [ k \in 1..Len(acc.keys) |-> graph_edge(acc.keys[k], acc.pair[acc.keys[k]]) ] :
        acc \in { graph_pairs(rows, 1, [ pair |-> << >>, keys |-> << >> ]) } })

\* ------------------------------------------------------------------- state
VARIABLES
  users,          \* the ids of the user table
  lobbies,        \* lobby id (position) -> [leader_id, finished]
  teams,          \* team id (position) -> [lobby_id, locked, members]
  join_requests,  \* join-request id (position) -> [lobby_id, team_id, requester_id, status]
  ratings,        \* the rating table in id order: rows [team_id, rater_id,
                  \* target_user_id, contribution, communication, would_work_again]
  invitations,    \* invitation id (position) -> [lobby_id, team_id, applicant_id,
                  \* target_user_id, status]
  accounts,       \* user id -> [email, password_hash], columns of the user table
  session,        \* the client's session cookie: session["user_id"], or NoUser
  req             \* the read request in progress, or None: what it was given,
                  \* what it has read so far and what it returned

vars == << users, accounts, lobbies, teams, join_requests, ratings, invitations, session, req >>

\* The persisted tables.
tables == << users, accounts, lobbies, teams, join_requests, ratings, invitations >>

\* werkzeug's password hashes: a salted digest under a method tag, which
\* check_password_hash recomputes from the offered password. The salt, which
\* no request of the program reads, is left out.
generate_password_hash(password) == << "scrypt", password >>

check_password_hash(pwhash, password) == pwhash = generate_password_hash(password)

\* "@duke.com", the domain seed_users gives the seeded accounts, and
\* "123456", their password.
DukeCom == << 64, 100, 117, 107, 101, 46, 99, 111, 109 >>
SeedPassword == << 49, 50, 51, 52, 53, 54 >>

\* The e-mail seed_users regenerates for a user: a lower-case base and digits
\* before @duke.com, unique per user ("s1@duke.com", "s2@duke.com", ...).
seed_email(u) == << 115, 48 + u >> \o DukeCom

seed_accounts(ids) ==
  [ u \in ids |-> [ email |-> seed_email(u),
                    password_hash |-> generate_password_hash(SeedPassword) ] ]

Rating(team_id, rater_id, target_user_id, contribution, communication, would_work_again) ==
  [ team_id |-> team_id, rater_id |-> rater_id, target_user_id |-> target_user_id,
    contribution |-> contribution, communication |-> communication,
    would_work_again |-> would_work_again ]

\* Team.query.filter_by(lobby_id=lobby.id).first(): a team id, or 0.
team_of_lobby(lobby_id) ==
  IF \E t \in 1..Len(teams) : teams[t].lobby_id = lobby_id
  THEN CHOOSE t \in 1..Len(teams) :
         /\ teams[t].lobby_id = lobby_id
         /\ \A u \in 1..(t - 1) : teams[u].lobby_id # lobby_id
  ELSE 0

\* {tm.user_id for tm in team.members}
member_ids(team_id) ==
  { teams[team_id].members[k] : k \in 1..Len(teams[team_id].members) }

\* A variant of add_member that adds no row.
add_member_not_added(members, user_id) == members

\* Team.add_member(user_id)
add_member(members, user_id) ==
  IF \E k \in 1..Len(members) : members[k] = user_id THEN members
  ELSE Append(members, user_id)

\* The values a rating form or JSON body carries in the model: in range,
\* and out of range on either side (the handlers take any integer).
FormValues == { << 0, 0, FALSE >>, << 7, 10, TRUE >>, << 11, -1, FALSE >> }

\* The trust vector and a reputation of the current state.
trust_now == compute_transitive_trust_scores(ratings, users)
reputation_now(u) == reputation(ratings, u, trust_now)

\* ---------------------------------------------------------------- handlers
\* POST /lobbies/new
create_lobby_page(user, title) ==
  /\ Len(lobbies) < MaxLobbies
  /\ IF title = ""
     THEN UNCHANGED vars
     ELSE /\ lobbies' = Append(lobbies, [ leader_id |-> user, finished |-> FALSE ])
          /\ teams' = Append(teams, [ lobby_id |-> Len(lobbies) + 1, locked |-> FALSE,
                                      members |-> add_member(<< >>, user) ])
          /\ UNCHANGED << session, accounts, invitations, req, users, join_requests, ratings >>

\* A variant of the submission that does not look for a pending request.
create_join_request_page_again(user, lobby_id) ==
  LET team_id == team_of_lobby(lobby_id) IN
  /\ Len(join_requests) < MaxJoinRequests
  /\ IF \/ team_id = 0
        \/ lobbies[lobby_id].finished
        \/ teams[team_id].locked
        \/ user \in member_ids(team_id)
     THEN UNCHANGED vars
     ELSE /\ join_requests' = Append(join_requests,
                 [ lobby_id |-> lobby_id, team_id |-> team_id,
                   requester_id |-> user, status |-> "pending" ])
          /\ UNCHANGED << session, accounts, invitations, req, users, lobbies, teams, ratings >>

\* POST /lobbies/<lobby_id>/join-requests
create_join_request_page(user, lobby_id) ==
  LET team_id == team_of_lobby(lobby_id) IN
  /\ Len(join_requests) < MaxJoinRequests
  /\ IF \/ team_id = 0
        \/ lobbies[lobby_id].finished
        \/ teams[team_id].locked
        \/ user \in member_ids(team_id)
        \/ \E k \in 1..Len(join_requests) :
             /\ join_requests[k].lobby_id = lobby_id
             /\ join_requests[k].team_id = team_id
             /\ join_requests[k].requester_id = user
             /\ join_requests[k].status = "pending"
     THEN UNCHANGED vars
     ELSE /\ join_requests' = Append(join_requests,
                 [ lobby_id |-> lobby_id, team_id |-> team_id,
                   requester_id |-> user, status |-> "pending" ])
          /\ UNCHANGED << session, accounts, invitations, req, users, lobbies, teams, ratings >>

\* POST /lobbies/<lobby_id>/join-requests/<request_id>/decision
decide_join_request_page(user, lobby_id, request_id, decision) ==
  LET team_id == team_of_lobby(lobby_id)
      jr == join_requests[request_id]
  IN
  IF \/ lobbies[lobby_id].leader_id # user
     \/ team_id = 0
     \/ jr.lobby_id # lobby_id \/ jr.team_id # team_id
     \/ jr.status # "pending"
     \/ decision \notin { "accept", "reject" }
     \/ lobbies[lobby_id].finished \/ teams[team_id].locked
  THEN UNCHANGED vars
  ELSE IF decision = "reject"
  THEN /\ join_requests' = [join_requests EXCEPT ![request_id].status = "rejected"]
       /\ UNCHANGED << session, accounts, invitations, req, users, lobbies, teams, ratings >>
  ELSE /\ join_requests' = [join_requests EXCEPT ![request_id].status = "accepted"]
       /\ teams' = [teams EXCEPT ![team_id].members = add_member(@, jr.requester_id)]
       /\ UNCHANGED << session, accounts, invitations, req, users, lobbies, ratings >>

\* A variant of the leader's form in which finish_contest and lock_team
\* switch the flag.
lobby_detail_switching(viewer, lobby_id, action) ==
  LET team_id == team_of_lobby(lobby_id) IN
  IF viewer # lobbies[lobby_id].leader_id
  THEN UNCHANGED vars
  ELSE IF action = "lock_team"
  THEN IF team_id = 0 THEN UNCHANGED vars
       ELSE /\ teams' = [teams EXCEPT ![team_id].locked = ~@]
            /\ UNCHANGED << session, accounts, invitations, req, users, lobbies, join_requests, ratings >>
  ELSE IF action = "finish_contest"
  THEN /\ lobbies' = [lobbies EXCEPT ![lobby_id].finished = ~@]
       /\ UNCHANGED << session, accounts, invitations, req, users, teams, join_requests, ratings >>
  ELSE UNCHANGED vars

\* POST /lobbies/<lobby_id> (the leader's form: lock_team, finish_contest, save)
lobby_detail(viewer, lobby_id, action) ==
  LET team_id == team_of_lobby(lobby_id) IN
  IF viewer # lobbies[lobby_id].leader_id
  THEN UNCHANGED vars
  ELSE IF action = "lock_team"
  THEN IF team_id = 0 THEN UNCHANGED vars
       ELSE /\ teams' = [teams EXCEPT ![team_id].locked = TRUE]
            /\ UNCHANGED << session, accounts, invitations, req, users, lobbies, join_requests, ratings >>
  ELSE IF action = "finish_contest"
  THEN /\ lobbies' = [lobbies EXCEPT ![lobby_id].finished = TRUE]
       /\ UNCHANGED << session, accounts, invitations, req, users, teams, join_requests, ratings >>
  ELSE UNCHANGED vars   \* save: title and contest_link only

\* A variant of the page handler's checks without the self-rating check.
rate_member_page_checks_no_self(user, lobby_id, team_id, target_user_id) ==
  /\ team_id # 0
  /\ lobbies[lobby_id].finished
  /\ user \in member_ids(team_id)
  /\ target_user_id \in member_ids(team_id)

\* The checks of rate_member_page before it writes.
rate_member_page_checks(user, lobby_id, team_id, target_user_id) ==
  /\ team_id # 0
  /\ lobbies[lobby_id].finished
  /\ user \in member_ids(team_id)
  /\ target_user_id \in member_ids(team_id)
  /\ target_user_id # user

\* A variant of the write that updates the first row of the triple and
\* leaves its other rows in the table.
RECURSIVE rewrite_rows_keeping_extras(_, _, _, _)
rewrite_rows_keeping_extras(rows, row, k, seen) ==
  IF k > Len(rows) THEN << >>
  ELSE LET same == /\ rows[k].team_id = row.team_id
                   /\ rows[k].rater_id = row.rater_id
                   /\ rows[k].target_user_id = row.target_user_id
       IN  IF same /\ ~seen
           THEN << row >> \o rewrite_rows_keeping_extras(rows, row, k + 1, TRUE)
           ELSE << rows[k] >> \o rewrite_rows_keeping_extras(rows, row, k + 1, seen)

\* The table after rate_member_page's write: the first row of the triple
\* updated in place and the other rows of the triple deleted, or a new row.
RECURSIVE rewrite_rows(_, _, _, _)
rewrite_rows(rows, row, k, seen) ==
  IF k > Len(rows) THEN << >>
  ELSE LET same == /\ rows[k].team_id = row.team_id
                   /\ rows[k].rater_id = row.rater_id
                   /\ rows[k].target_user_id = row.target_user_id
       IN  IF ~same THEN << rows[k] >> \o rewrite_rows(rows, row, k + 1, seen)
           ELSE IF ~seen THEN << row >> \o rewrite_rows(rows, row, k + 1, TRUE)
           ELSE rewrite_rows(rows, row, k + 1, TRUE)

has_rating(rows, team_id, rater_id, target_user_id) ==
  \E k \in 1..Len(rows) :
    /\ rows[k].team_id = team_id
    /\ rows[k].rater_id = rater_id
    /\ rows[k].target_user_id = target_user_id

\* POST /lobbies/<lobby_id>/rate
rate_member_page(user, lobby_id, target_user_id, v) ==
  LET team_id == team_of_lobby(lobby_id)
      row == Rating(team_id, user, target_user_id, Some(v[1]), Some(v[2]), v[3])
  IN
  IF ~rate_member_page_checks(user, lobby_id, team_id, target_user_id)
  THEN UNCHANGED vars
  ELSE IF has_rating(ratings, team_id, user, target_user_id)
  THEN /\ ratings' = rewrite_rows(ratings, row, 1, FALSE)
       /\ UNCHANGED << session, accounts, invitations, req, users, lobbies, teams, join_requests >>
  ELSE /\ Len(ratings) < MaxRatings
       /\ ratings' = Append(ratings, row)
       /\ UNCHANGED << session, accounts, invitations, req, users, lobbies, teams, join_requests >>

\* POST /api/teams/<team_id>/ratings: the checks made before the row is built.
rate_member_checks(team_id, rater_id, target_user_id) ==
  /\ teams[team_id].lobby_id \in 1..Len(lobbies)
  /\ lobbies[teams[team_id].lobby_id].finished
  /\ rater_id \in member_ids(team_id)
  /\ target_user_id \in member_ids(team_id)
  /\ rater_id # target_user_id

\* POST /api/teams/<team_id>/ratings
rate_member(team_id, rater_id, target_user_id, v) ==
  IF ~rate_member_checks(team_id, rater_id, target_user_id)
  THEN UNCHANGED vars
  ELSE /\ Len(ratings) < MaxRatings
       /\ ratings' = Append(ratings,
             Rating(team_id, rater_id, target_user_id, Some(v[1]), Some(v[2]), v[3]))
       /\ UNCHANGED << session, accounts, invitations, req, users, lobbies, teams, join_requests >>

\* POST /lobbies/<lobby_id>/ratings/<rating_id>/delete
delete_rating_page(user, lobby_id, rating_id) ==
  LET team_id == team_of_lobby(lobby_id) IN
  IF \/ team_id = 0
     \/ ratings[rating_id].team_id # team_id
     \/ ratings[rating_id].rater_id # user
  THEN UNCHANGED vars
  ELSE /\ ratings' = SubSeq(ratings, 1, rating_id - 1)
                     \o SubSeq(ratings, rating_id + 1, Len(ratings))
       /\ UNCHANGED << session, accounts, invitations, req, users, lobbies, teams, join_requests >>


\* POST /api/lobbies/<lobby_id>/join-requests: the checks and the row of
\* the page handler, answered in JSON.
api_create_join_request(user, lobby_id) == create_join_request_page(user, lobby_id)

\* A variant of the JSON decision that does not ask who decides.
api_decide_join_request_by_anyone(user, lobby_id, request_id, decision) ==
  LET team_id == team_of_lobby(lobby_id)
      jr == join_requests[request_id]
  IN
  IF \/ team_id = 0
     \/ jr.lobby_id # lobby_id \/ jr.team_id # team_id
     \/ jr.status # "pending"
     \/ decision \notin { "accept", "reject" }
     \/ lobbies[lobby_id].finished
     \/ teams[team_id].locked
  THEN UNCHANGED vars
  ELSE IF decision = "reject"
  THEN /\ join_requests' = [join_requests EXCEPT ![request_id].status = "rejected"]
       /\ UNCHANGED << session, accounts, invitations, req, users, lobbies, teams, ratings >>
  ELSE /\ join_requests' = [join_requests EXCEPT ![request_id].status = "accepted"]
       /\ teams' = [teams EXCEPT ![team_id].members = add_member(@, jr.requester_id)]
       /\ UNCHANGED << session, accounts, invitations, req, users, lobbies, ratings >>

\* POST /api/lobbies/<lobby_id>/join-requests/<request_id>/decision
api_decide_join_request(user, lobby_id, request_id, decision) ==
  LET team_id == team_of_lobby(lobby_id)
      jr == join_requests[request_id]
  IN
  IF \/ lobbies[lobby_id].leader_id # user
     \/ team_id = 0
     \/ jr.lobby_id # lobby_id \/ jr.team_id # team_id
     \/ jr.status # "pending"
     \/ decision \notin { "accept", "reject" }
     \/ lobbies[lobby_id].finished
     \/ teams[team_id].locked
  THEN UNCHANGED vars
  ELSE IF decision = "reject"
  THEN /\ join_requests' = [join_requests EXCEPT ![request_id].status = "rejected"]
       /\ UNCHANGED << session, accounts, invitations, req, users, lobbies, teams, ratings >>
  ELSE /\ join_requests' = [join_requests EXCEPT ![request_id].status = "accepted"]
       /\ teams' = [teams EXCEPT ![team_id].members = add_member(@, jr.requester_id)]
       /\ UNCHANGED << session, accounts, invitations, req, users, lobbies, ratings >>

\* POST /api/teams/<team_id>/lock (no check of who asks)
lock_team(team_id) ==
  /\ teams' = [teams EXCEPT ![team_id].locked = TRUE]
  /\ UNCHANGED << session, accounts, invitations, req, users, lobbies, join_requests, ratings >>

\* POST /lobbies/<lobby_id>/invite; target is the user of the e-mail
\* address given, NoUser when there is none.
invite_to_lobby(user, lobby_id, target) ==
  LET team_id == team_of_lobby(lobby_id) IN
  /\ Len(invitations) < MaxInvitations
  /\ IF \/ lobbies[lobby_id].leader_id # user
        \/ team_id = 0
        \/ lobbies[lobby_id].finished
        \/ teams[team_id].locked
        \/ target = NoUser
        \/ target \in member_ids(team_id)
        \/ \E k \in 1..Len(invitations) :
             /\ invitations[k].team_id = team_id
             /\ invitations[k].target_user_id = target
             /\ invitations[k].status = "pending"
     THEN UNCHANGED vars
     ELSE /\ invitations' = Append(invitations,
                 [ lobby_id |-> lobby_id, team_id |-> team_id, applicant_id |-> user,
                   target_user_id |-> target, status |-> "pending" ])
          /\ UNCHANGED << session, accounts, req, users, lobbies, teams, join_requests, ratings >>

\* A variant of the test before an invited user is added that does not
\* look at the lock.
invite_may_join_locked(team_id) == team_id \in 1..Len(teams)

\* `if team and not team.locked` of respond_invite.
invite_may_join(team_id) == team_id \in 1..Len(teams) /\ ~teams[team_id].locked

\* GET /invites/respond/<token>?action=...; the token is the invitation's.
respond_invite(invitation_id, action) ==
  LET inv == invitations[invitation_id] IN
  IF inv.status # "pending" THEN UNCHANGED vars
  ELSE IF action = "accept"
  THEN IF invite_may_join(inv.team_id)
       THEN /\ teams' = [teams EXCEPT ![inv.team_id].members = add_member(@, inv.target_user_id)]
            /\ invitations' = [invitations EXCEPT ![invitation_id].status = "accepted"]
            /\ UNCHANGED << session, accounts, req, users, lobbies, join_requests, ratings >>
       ELSE UNCHANGED vars
  ELSE IF action = "reject"
  THEN /\ invitations' = [invitations EXCEPT ![invitation_id].status = "rejected"]
       /\ UNCHANGED << session, accounts, req, users, lobbies, teams, join_requests, ratings >>
  ELSE UNCHANGED vars   \* the page with the two links

\* ------------------------------------------------------- the application
\* A fresh database after start-up: seed_users has run, nothing else exists.
Init ==
  /\ users = UserIds
  /\ lobbies = << >>
  /\ teams = << >>
  /\ join_requests = << >>
  /\ ratings = << >>
  /\ invitations = << >>
  /\ accounts = seed_accounts(users) /\ session = NoUser
  /\ req = None

Next ==
  \/ \E user \in users, title \in { "", "t" } : create_lobby_page(user, title)
  \/ \E user \in users, lobby_id \in 1..Len(lobbies) :
       create_join_request_page(user, lobby_id)
  \/ \E user \in users, lobby_id \in 1..Len(lobbies),
        request_id \in 1..Len(join_requests), decision \in { "accept", "reject" } :
       decide_join_request_page(user, lobby_id, request_id, decision)
  \/ \E viewer \in users, lobby_id \in 1..Len(lobbies),
        action \in { "lock_team", "finish_contest", "save" } :
       lobby_detail(viewer, lobby_id, action)
  \/ \E user \in users, lobby_id \in 1..Len(lobbies),
        target_user_id \in users \cup { NoUser }, v \in FormValues :
       rate_member_page(user, lobby_id, target_user_id, v)
  \/ \E team_id \in 1..Len(teams), rater_id \in users, target_user_id \in users,
        v \in FormValues :
       rate_member(team_id, rater_id, target_user_id, v)
  \/ \E user \in users, lobby_id \in 1..Len(lobbies), rating_id \in 1..Len(ratings) :
       delete_rating_page(user, lobby_id, rating_id)

Spec == Init /\ [][Next]_vars


\* ------------------------------------------------------------- membership
\* The handlers that create lobbies, lock and finish them, and add members,
\* from the fresh database.
MemberNext ==
  \/ \E user \in users, title \in { "", "t" } : create_lobby_page(user, title)
  \/ \E user \in users, lobby_id \in 1..Len(lobbies) :
       create_join_request_page(user, lobby_id)
  \/ \E user \in users, lobby_id \in 1..Len(lobbies) :
       api_create_join_request(user, lobby_id)
  \/ \E user \in users, lobby_id \in 1..Len(lobbies),
        request_id \in 1..Len(join_requests), decision \in { "accept", "reject" } :
       decide_join_request_page(user, lobby_id, request_id, decision)
  \/ \E user \in users, lobby_id \in 1..Len(lobbies),
        request_id \in 1..Len(join_requests), decision \in { "accept", "reject" } :
       api_decide_join_request(user, lobby_id, request_id, decision)
  \/ \E viewer \in users, lobby_id \in 1..Len(lobbies),
        action \in { "lock_team", "finish_contest", "save" } :
       lobby_detail(viewer, lobby_id, action)
  \/ \E team_id \in 1..Len(teams) : lock_team(team_id)
  \/ \E user \in users, lobby_id \in 1..Len(lobbies), target \in users \cup { NoUser } :
       invite_to_lobby(user, lobby_id, target)
  \/ \E invitation_id \in 1..Len(invitations), action \in { "accept", "reject", "" } :
       respond_invite(invitation_id, action)

MemberSpec == Init /\ [][MemberNext]_vars

\* ------------------------------------------------- the engine over any table
\* seed_ratings_full_matrix(team_id, member_ids, salt): one row per ordered
\* pair of distinct members, i and j the members' positions from 0.
seed_rating(team_id, member_seq, i, j, salt) ==
  Rating(team_id, member_seq[i + 1], member_seq[j + 1],
         Some(6 + ((i + 2 * j + salt) % 5)),
         Some(6 + ((2 * i + j + salt) % 5)),
         (i + j + salt) % 2 = 0)

RECURSIVE seed_rows(_, _, _, _)
seed_rows(team_id, member_seq, p, salt) ==
  LET n == Len(member_seq)
      i == p \div n
      j == p % n
  IN  IF p >= n * n THEN << >>
      ELSE (IF member_seq[i + 1] = member_seq[j + 1] THEN << >>
            ELSE << seed_rating(team_id, member_seq, i, j, salt) >>)
           \o seed_rows(team_id, member_seq, p + 1, salt)

seed_ratings_full_matrix(team_id, member_seq, salt) ==
  seed_rows(team_id, member_seq, 0, salt)

\* The values a row written directly to the table carries in the model: a
\* full rating, a partial one with a NULL axis, and one of local trust 0.
RowValues ==
  { << Some(10), Some(10), TRUE >>, << Some(4), None, FALSE >>,
    << Some(0), None, FALSE >> }

\* The tables the engine starts from: empty, empty with user 3 missing from
\* the user table, empty with no user at all, and a finished lobby with a locked team of three whose
\* ratings are seed_ratings_full_matrix's with salt 1, as seed_finished_lobby
\* leaves them (salt = lobby.id + lobby_index).
EngineInit ==
  \/ /\ users \in { UserIds, UserIds \ { 3 }, { } }
     /\ lobbies = << >> /\ teams = << >> /\ join_requests = << >>
     /\ accounts = seed_accounts(users) /\ session = NoUser
     /\ ratings = << >> /\ invitations = << >> /\ req = None
  \/ /\ users = UserIds
     /\ lobbies = << [ leader_id |-> 1, finished |-> TRUE ] >>
     /\ teams = << [ lobby_id |-> 1, locked |-> TRUE, members |-> << 1, 2, 3 >> ] >>
     /\ join_requests = << >>
     /\ ratings = seed_ratings_full_matrix(1, << 1, 2, 3 >>, 1)
     /\ accounts = seed_accounts(users) /\ session = NoUser
     /\ invitations = << >> /\ req = None

\* The rows the table held at EngineInit.
initial_rows == IF lobbies = << >> THEN 0 ELSE Len(seed_ratings_full_matrix(1, << 1, 2, 3 >>, 1))

\* db.session.add(Rating(...)); db.session.commit(): a row written to the
\* table directly, as seed_db and tools/sanity_check_dedupe do.
insert_rating(row) ==
  /\ Len(ratings) < initial_rows + MaxRows
  /\ ratings' = Append(ratings, row)
  /\ UNCHANGED << session, accounts, invitations, req, users, lobbies, teams, join_requests >>

EngineNext ==
  /\ Len(ratings) < initial_rows + MaxRows
  /\ \E team_id \in TeamIds, rater_id \in UserIds, target_user_id \in UserIds, v \in RowValues :
    insert_rating(Rating(team_id, rater_id, target_user_id, v[1], v[2], v[3]))

EngineSpec == EngineInit /\ [][EngineNext]_vars


\* ---------------------------------------------------------------- matcher
\* rep_score_by_id.get(uid, 0.0), in hundredths.
score_of(rep_score_by_id, uid) ==
  IF uid \in DOMAIN rep_score_by_id THEN rep_score_by_id[uid] ELSE 0

\* A variant of the team aggregate that sums the members' scores.
aggregate_team_rep_summed(members, rep_score_by_id) ==
  SumOver([ k \in 1..Len(members) |-> score_of(rep_score_by_id, members[k]) ],
          1..Len(members))

\* _aggregate_team_rep_0_to_10(member_ids, rep_score_by_id), in hundredths:
\* round(sum(scores) / len(scores), 2), 0.0 for no member.
aggregate_team_rep_0_to_10(members, rep_score_by_id) ==
  IF members = << >> THEN 0
  ELSE round2(Rat(SumOver([ k \in 1..Len(members) |->
                              score_of(rep_score_by_id, members[k]) ],
                          1..Len(members)),
                  100 * Len(members)))

\* Lobby.query.order_by(Lobby.created_at.desc()): the lobby ids, newest
\* first (ids are handed out in creation order).
baseline_order == [ i \in 1..Len(lobbies) |-> Len(lobbies) + 1 - i ]

\* The role of the viewer in a lobby: "Leader", "Member", or "" for None.
role_of(viewer, lobby_id) ==
  LET team_id == team_of_lobby(lobby_id) IN
  IF viewer = NoUser THEN ""
  ELSE IF lobbies[lobby_id].leader_id # NoUser /\ viewer = lobbies[lobby_id].leader_id
  THEN "Leader"
  ELSE IF team_id # 0 /\ viewer \in member_ids(team_id) THEN "Member"
  ELSE ""

\* The dict built for the lobby at position idx of the baseline order.
lobby_dict(viewer, rep_score_by_id, idx) ==
  LET lobby_id == baseline_order[idx]
      team_id == team_of_lobby(lobby_id)
      members == IF team_id = 0 THEN << >> ELSE teams[team_id].members
      team_rep == aggregate_team_rep_0_to_10(members, rep_score_by_id)
  IN  [ id |-> lobby_id,
        finished |-> lobbies[lobby_id].finished,
        team_locked |-> IF team_id = 0 THEN FALSE ELSE teams[team_id].locked,
        role |-> role_of(viewer, lobby_id),
        team_reputation |-> team_rep,
        rep_distance |->
          IF viewer = NoUser THEN None
          ELSE Some(round2(Rat(Abs(team_rep - score_of(rep_score_by_id, viewer)), 100))),
        order |-> idx - 1 ]

\* A variant of _is_joinable that takes a locked team as joinable.
is_joinable_ignoring_lock(l) == l.role = "" /\ ~l.finished

\* _is_joinable(l)
is_joinable(l) == l.role = "" /\ ~l.finished /\ ~l.team_locked

\* _sort_key(l): (joinable_bucket, dist_val, _order); a missing distance
\* sorts as 1e9.
sort_key(l) ==
  << IF is_joinable(l) THEN 0 ELSE 1,
     IF l.rep_distance = None THEN 1000000000 ELSE l.rep_distance[1],
     l.order >>

\* Tuples compared as Python compares them.
key_less(a, b) ==
  \/ a[1] < b[1]
  \/ a[1] = b[1] /\ a[2] < b[2]
  \/ a[1] = b[1] /\ a[2] = b[2] /\ a[3] < b[3]

\* list.sort(key=_sort_key): stable, ascending. The keys are distinct (they
\* end in the position), so the result is the one sequence in key order.
RECURSIVE sort_by_key(_)
sort_by_key(ds) ==
  IF ds = << >> THEN << >>
  ELSE LET m == CHOOSE i \in 1..Len(ds) :
                  \A j \in 1..Len(ds) : j = i \/ key_less(sort_key(ds[i]), sort_key(ds[j]))
       IN  << ds[m] >> \o sort_by_key(SubSeq(ds, 1, m - 1) \o SubSeq(ds, m + 1, Len(ds)))

\* The list lobbies_page renders and GET /api/lobbies returns, for a viewer
\* (NoUser: nobody logged in) and the scores of the users involved.
ranked_lobbies(viewer, rep_score_by_id) ==
  LET ds == [ idx \in 1..Len(lobbies) |-> lobby_dict(viewer, rep_score_by_id, idx) ]
  IN  IF viewer # NoUser THEN sort_by_key(ds) ELSE ds


\* ------------------------------------------------------ invite suggestions
\* Strings as Python and SQLite order them: by code point, a proper prefix
\* first. A name is the sequence of its code points.
RECURSIVE str_less(_, _)
str_less(a, b) ==
  IF b = << >> THEN FALSE
  ELSE IF a = << >> THEN TRUE
  ELSE IF a[1] # b[1] THEN a[1] < b[1]
  ELSE str_less(Tail(a), Tail(b))

\* str.lower() on ASCII letters.
lower(s) == [ k \in 1..Len(s) |-> IF s[k] >= 65 /\ s[k] <= 90 THEN s[k] + 32 ELSE s[k] ]

\* Invitation.query.filter_by(team_id=team.id, status="pending"), and the
\* excluded ids: the members, the viewer, the targets of pending invites.
pending_invites(team_id) ==
  { i \in 1..Len(invitations) :
      invitations[i].team_id = team_id /\ invitations[i].status = "pending" }

\* A variant of the excluded ids that leaves the invited users in.
excluded_ids_without_invited(viewer, team_id) == member_ids(team_id) \cup { viewer }

excluded_ids(viewer, team_id) ==
  member_ids(team_id) \cup { viewer }
    \cup { invitations[i].target_user_id :
           i \in { i \in pending_invites(team_id) : invitations[i].target_user_id # NoUser } }

\* User.query.filter(~User.id.in_(excluded_ids)).order_by(User.name.asc()):
\* the users left, by name; users of one name come in id order.
RECURSIVE by_name(_, _)
by_name(us, names) ==
  IF us = {} THEN << >>
  ELSE LET u == CHOOSE u \in us :
                  \A v \in us \ { u } :
                    \/ str_less(names[u], names[v])
                    \/ names[u] = names[v] /\ u < v
       IN  << u >> \o by_name(us \ { u }, names)

candidates(viewer, team_id, names) ==
  by_name(users \ excluded_ids(viewer, team_id), names)

\* One entry of scored: the user, the score and the distance to the viewer.
scored_entry(u, viewer, rep_score_by_id, names) ==
  [ id |-> u, name |-> names[u],
    reputation |-> score_of(rep_score_by_id, u),
    distance |-> round2(Rat(Abs(score_of(rep_score_by_id, u)
                                - score_of(rep_score_by_id, viewer)), 100)) ]

\* The key of scored.sort: (distance, name.lower()).
scored_less(x, y) ==
  \/ x.distance < y.distance
  \/ x.distance = y.distance /\ str_less(lower(x.name), lower(y.name))

\* A variant of the cut that keeps the last five.
first_five_from_the_end(s) == SubSeq(s, IF Len(s) > 5 THEN Len(s) - 4 ELSE 1, Len(s))

\* scored[:5]
first_five(s) == SubSeq(s, 1, IF Len(s) > 5 THEN 5 ELSE Len(s))

\* scored.sort(key=...): stable, so the first of the least entries leads.
RECURSIVE sort_scored(_)
sort_scored(s) ==
  IF s = << >> THEN << >>
  ELSE LET m == CHOOSE i \in 1..Len(s) :
                  /\ \A j \in 1..(i - 1) : scored_less(s[i], s[j])
                  /\ \A j \in (i + 1)..Len(s) : ~scored_less(s[j], s[i])
       IN  << s[m] >> \o sort_scored(SubSeq(s, 1, m - 1) \o SubSeq(s, m + 1, Len(s)))

\* The part the endpoint and the page share: score the candidates, sort,
\* cut to five.
top_scored(viewer, team_id, rep_score_by_id, names) ==
  LET cs == candidates(viewer, team_id, names)
      scored == [ k \in 1..Len(cs) |-> scored_entry(cs[k], viewer, rep_score_by_id, names) ]
  IN  first_five(sort_scored(scored))

\* GET /api/lobbies/<lobby_id>/invite-suggestions: the status and the body
\* (the entries, or none for an error).
api_invite_suggestions(viewer, lobby_id, rep_score_by_id, names) ==
  LET team_id == team_of_lobby(lobby_id) IN
  IF viewer = NoUser THEN [ status |-> 401, body |-> None ]
  ELSE IF lobbies[lobby_id].leader_id # viewer THEN [ status |-> 403, body |-> None ]
  ELSE IF team_id = 0 THEN [ status |-> 404, body |-> None ]
  ELSE IF lobbies[lobby_id].finished \/ teams[team_id].locked
  THEN [ status |-> 200, body |-> Some(<< >>) ]
  ELSE [ status |-> 200, body |-> Some(top_scored(viewer, team_id, rep_score_by_id, names)) ]

\* invite_recommendations of GET /lobbies/<lobby_id>: the page is rendered
\* for every viewer, with an empty list unless the viewer leads a team that
\* is neither locked nor finished.
invite_recommendations(viewer, lobby_id, rep_score_by_id, names) ==
  LET team_id == team_of_lobby(lobby_id)
      is_leader == /\ viewer # NoUser
                   /\ lobbies[lobby_id].leader_id # NoUser
                   /\ viewer = lobbies[lobby_id].leader_id
  IN  IF is_leader /\ team_id # 0 /\ ~teams[team_id].locked /\ ~lobbies[lobby_id].finished
      THEN [ status |-> 200, body |-> Some(top_scored(viewer, team_id, rep_score_by_id, names)) ]
      ELSE [ status |-> 200, body |-> Some(<< >>) ]

\* ---------------------------------------------- the invite suggestions alone
\* Eight users, so that more than five can be eligible; their names differ
\* in case only in pairs: Al, bo, Bo, al, Cy, cy, Di, di.
SuggestUsers == { 1, 2, 3, 4, 5, 6, 7, 8 }
SuggestNames ==
  << << 65, 108 >>, << 98, 111 >>, << 66, 111 >>, << 97, 108 >>,
     << 67, 121 >>, << 99, 121 >>, << 68, 105 >>, << 100, 105 >> >>

\* The scores of the eight, in hundredths: all equal, distinct, and equal
\* distances on both sides of the leader's score.
SuggestScores ==
  { << 700, 700, 700, 700, 700, 700, 700, 700 >>,
    << 500, 0, 100, 450, 560, 1000, 900, 480 >>,
    << 500, 400, 600, 400, 600, 300, 700, 500 >> }

\* The teams of lobby 1 (led by user 1): nobody yet, the leader, the leader
\* and user 2. Lobby 2 is led by user 2 and has its own team.
SuggestMembers == { << >>, << 1 >>, << 1, 2 >> }

\* Lobby 1 (finished) and its team (locked): open, locked, finished.
SuggestStatus == { << FALSE, FALSE >>, << FALSE, TRUE >>, << TRUE, TRUE >>, << TRUE, FALSE >> }

Invitation(team_id, target_user_id, status) ==
  [ lobby_id |-> team_id, team_id |-> team_id,
    applicant_id |-> IF team_id = 1 THEN 1 ELSE 2,
    target_user_id |-> target_user_id, status |-> status ]

\* The invitation tables: none, pending ones of the team, one of them
\* answered, one of the other team, one without a target.
SuggestInvitations ==
  { << >>,
    << Invitation(1, 3, "pending") >>,
    << Invitation(1, 3, "pending"), Invitation(1, 4, "pending") >>,
    << Invitation(1, 3, "rejected"), Invitation(1, 5, "pending") >>,
    << Invitation(2, 3, "pending"), Invitation(1, 8, "accepted") >>,
    << Invitation(1, NoUser, "pending"), Invitation(1, 6, "pending") >> }

SuggestInit ==
  /\ users = SuggestUsers
  /\ \E st \in SuggestStatus, m \in SuggestMembers :
       /\ lobbies = << [ leader_id |-> 1, finished |-> st[1] ],
                       [ leader_id |-> 2, finished |-> FALSE ] >>
       /\ teams = << [ lobby_id |-> 1, locked |-> st[2], members |-> m ],
                     [ lobby_id |-> 2, locked |-> FALSE, members |-> << 2 >> ] >>
  /\ invitations \in SuggestInvitations
  /\ join_requests = << >> /\ ratings = << >>
  /\ accounts = seed_accounts(users) /\ session = NoUser
  /\ req \in { [ op |-> o, viewer |-> v, lobby_id |-> 1, rep_score_by_id |-> s, out |-> None ] :
               o \in { "invite_suggestions", "lobby_detail" },
               v \in { NoUser, 1, 2, 3 }, s \in SuggestScores }

\* The endpoint answers.
suggest_api_call ==
  /\ req.op = "invite_suggestions" /\ req.out = None
  /\ req' = [ req EXCEPT !.out = Some(api_invite_suggestions(
                req.viewer, req.lobby_id, req.rep_score_by_id, SuggestNames)) ]
  /\ UNCHANGED << session, tables >>

\* The page is rendered.
suggest_page_call ==
  /\ req.op = "lobby_detail" /\ req.out = None
  /\ req' = [ req EXCEPT !.out = Some(invite_recommendations(
                req.viewer, req.lobby_id, req.rep_score_by_id, SuggestNames)) ]
  /\ UNCHANGED << session, tables >>

SuggestNext == suggest_api_call \/ suggest_page_call

SuggestSpec == SuggestInit /\ [][SuggestNext]_vars

\* ------------------------------------------------- the lobby ordering alone
\* The lobby tables the ordering is given in the model: three lobbies led
\* by users 1, 2 and 1, each open, locked or finished, its one team empty
\* (a lobby made by POST /api/lobbies), of the leader alone, of the leader
\* and user 3, or of everybody.
RankLeaders == << 1, 2, 1 >>
RankStatus == { << FALSE, FALSE >>, << FALSE, TRUE >>, << TRUE, TRUE >> }
RankMembers(leader) == { << >>, << leader >>, << leader, 3 >>, << 1, 2, 3 >> }

\* The users of the ordering: the three of the other specifications and
\* one who leads and belongs to no team.
RankUsers == UserIds \cup { 4 }

\* The scores the ordering is given, in hundredths, for users 1, 2, 3, 4:
\* spread out, all equal, and a team mean that needs rounding.
RankScores ==
  { << 0, 500, 1000, 500 >>, << 700, 700, 700, 700 >>, << 333, 333, 335, 333 >> }

RankInit ==
  /\ users = RankUsers
  /\ \E st \in [ 1..3 -> RankStatus ] :
       /\ lobbies = [ i \in 1..3 |-> [ leader_id |-> RankLeaders[i], finished |-> st[i][1] ] ]
       /\ \E m1 \in RankMembers(RankLeaders[1]), m2 \in RankMembers(RankLeaders[2]),
             m3 \in RankMembers(RankLeaders[3]) :
            teams = << [ lobby_id |-> 1, locked |-> st[1][2], members |-> m1 ],
                       [ lobby_id |-> 2, locked |-> st[2][2], members |-> m2 ],
                       [ lobby_id |-> 3, locked |-> st[3][2], members |-> m3 ] >>
  /\ join_requests = << >> /\ ratings = << >> /\ invitations = << >>
  /\ accounts = seed_accounts(users) /\ session = NoUser
  /\ req \in { [ op |-> "lobbies", viewer |-> v, rep_score_by_id |-> s, out |-> None ] :
               v \in RankUsers \cup { NoUser }, s \in RankScores }

\* The ordering part of lobbies_page and GET /api/lobbies.
rank_call ==
  /\ req.out = None
  /\ req' = [ req EXCEPT !.out = Some(ranked_lobbies(req.viewer, req.rep_score_by_id)) ]
  /\ UNCHANGED << session, tables >>

RankNext == rank_call

RankSpec == RankInit /\ [][RankNext]_vars

\* ------------------------------------------------ the overall score alone
\* The reputation dicts _rep_overall_score_0_to_10 is given in the model:
\* averages below, in and above 0..10 (in hundredths), a ratio that is null,
\* in 0..1 or outside it, and no dict at all.
ScoreAverages == { -100, 0, 333, 667, 1000, 1100 }
ScoreRatios == { None, << 0, 1 >>, << 1, 3 >>, << 1, 2 >>, << 1, 1 >>, << 3, 2 >>, << -1, 2 >> }
ScoreInputs ==
  { None } \cup
  { Some([ contribution_avg |-> c, communication_avg |-> k,
           would_work_again_ratio |-> w, rating_count |-> 1 ]) :
      c \in ScoreAverages, k \in ScoreAverages, w \in ScoreRatios }

ScoreInit ==
  /\ users = UserIds
  /\ lobbies = << >> /\ teams = << >> /\ join_requests = << >>
  /\ ratings = << >> /\ invitations = << >>
  /\ accounts = seed_accounts(users) /\ session = NoUser
  /\ req \in { [ op |-> "score", rep |-> rep, out |-> None ] : rep \in ScoreInputs }

\* One call of _rep_overall_score_0_to_10.
score_call ==
  /\ req.out = None
  /\ req' = [ req EXCEPT !.out = Some(rep_overall_score_0_to_10(req.rep)) ]
  /\ UNCHANGED << session, tables >>

ScoreNext == score_call

ScoreSpec == ScoreInit /\ [][ScoreNext]_vars


\* ------------------------------------------------- the local trust alone
\* The axis values of a row in the model: NULL, below 0, the ends and the
\* inside of 0..10, above 10.
AxisValues == { None, Some(-1), Some(0), Some(4), Some(10), Some(11) }

LocalInit ==
  /\ users = UserIds
  /\ lobbies = << >> /\ teams = << >> /\ join_requests = << >>
  /\ ratings = << >> /\ invitations = << >>
  /\ accounts = seed_accounts(users) /\ session = NoUser
  /\ req \in { [ op |-> "local", row |-> Rating(1, 1, 2, c, k, w), out |-> None ] :
               c \in AxisValues, k \in AxisValues, w \in BOOLEAN }

\* The local trust of one row, as the collapsing loop computes it.
local_call ==
  /\ req.out = None
  /\ req' = [ req EXCEPT !.out = Some(local(req.row)) ]
  /\ UNCHANGED << session, tables >>

LocalNext == local_call

LocalSpec == LocalInit /\ [][LocalNext]_vars


\* ------------------------------------------------- read requests in steps
\* A set of ids as the list a query returns it, in id order.
RECURSIVE in_id_order(_)
in_id_order(s) ==
  IF s = {} THEN << >>
  ELSE LET u == CHOOSE u \in s : \A v \in s : u <= v
       IN  << u >> \o in_id_order(s \ { u })

\* The rows of the query of reputation(): .filter(Rating.target_user_id == self.id)
rows_rating(rows, target) ==
  SelectSeq(rows, LAMBDA row : row.target_user_id = target)

\* The read requests of the model.
ReadOps == { "trust", "reputation", "users", "graph", "lobbies", "invite_suggestions" }

\* The users whose reputation a request computes after the trust vector,
\* in the order it does: the user asked for, every user, the members of
\* the listed lobbies and the viewer, the viewer and the candidates.
rep_user_ids(op, viewer, lobby_id) ==
  IF op = "trust" THEN {}
  ELSE IF op = "reputation" THEN { viewer }
  ELSE IF op \in { "users", "graph" } THEN users
  ELSE IF op = "lobbies"
  THEN { viewer } \cup UNION { member_ids(t) : t \in 1..Len(teams) }
  ELSE { viewer } \cup (users \ excluded_ids(viewer, team_of_lobby(lobby_id)))

\* The request reads the users and the rating rows and computes the trust
\* vector (User.compute_transitive_trust_scores()).
read_trust ==
  /\ req # None /\ req.step = "start"
  /\ req' = [ req EXCEPT
       !.step = "reps",
       !.trust_rows = ratings,
       !.trust_scores = compute_transitive_trust_scores(ratings, users),
       !.todo = in_id_order(rep_user_ids(req.op, req.viewer, req.lobby_id)) ]
  /\ UNCHANGED << session, tables >>

\* A variant of the next step that trims the rating table while it reads.
read_reputation_trimming ==
  /\ req # None /\ req.step = "reps" /\ req.todo # << >>
  /\ req' = [ req EXCEPT
       !.todo = Tail(@),
       !.rep_rows = Table([ u \in DOMAIN @ \cup { Head(req.todo) } |->
                            rows_rating(ratings, u) ], { Head(req.todo) }) @@ @,
       !.rep_by_id = Table([ u \in DOMAIN @ \cup { Head(req.todo) } |->
                             reputation(ratings, u, req.trust_scores) ], { Head(req.todo) }) @@ @ ]
  /\ ratings' = SubSeq(ratings, 1, Len(ratings) - 1)
  /\ UNCHANGED << session, accounts, users, lobbies, teams, join_requests, invitations >>

\* The request computes the reputation of its next user from the trust
\* vector it holds: u.reputation(trust_scores=trust_scores) runs its own
\* query on the rating table.
read_reputation ==
  /\ req # None /\ req.step = "reps" /\ req.todo # << >>
  /\ req' = [ req EXCEPT
       !.todo = Tail(@),
       !.rep_rows = Table([ u \in DOMAIN @ \cup { Head(req.todo) } |->
                            rows_rating(ratings, u) ], { Head(req.todo) }) @@ @,
       !.rep_by_id = Table([ u \in DOMAIN @ \cup { Head(req.todo) } |->
                             reputation(ratings, u, req.trust_scores) ], { Head(req.todo) }) @@ @ ]
  /\ UNCHANGED << session, tables >>

\* rep_score_by_id of _compute_rep_scores_for_user_ids.
rep_scores(rep_by_id) ==
  Table([ u \in DOMAIN rep_by_id |-> rep_overall_score_0_to_10(Some(rep_by_id[u])) ],
        DOMAIN rep_by_id)

\* The request builds its answer from what it has read; /api/graph reads
\* the rating rows once more for its edges.
respond ==
  /\ req # None /\ req.step = "reps" /\ req.todo = << >>
  /\ req' = [ req EXCEPT
       !.step = "done",
       !.out = Some(
         IF req.op = "trust" THEN req.trust_scores
         ELSE IF req.op \in { "reputation", "users" } THEN req.rep_by_id
         ELSE IF req.op = "graph"
         THEN [ nodes |-> [ trust |-> req.trust_scores, reputation |-> req.rep_by_id ],
                edges |-> api_graph_edges(ratings) ]
         ELSE IF req.op = "lobbies"
         THEN ranked_lobbies(req.viewer, rep_scores(req.rep_by_id))
         ELSE api_invite_suggestions(req.viewer, req.lobby_id,
                                     rep_scores(req.rep_by_id), SuggestNames)) ]
  /\ UNCHANGED << session, tables >>

\* The database the requests run on: lobby 1 of users 1, 2, 3 is finished
\* (its members may rate each other), lobby 2 of user 1 is open; the rating
\* table is empty or holds a row; one read request has arrived.
ReadRatings ==
  { << >>, << Rating(1, 2, 1, Some(7), Some(10), TRUE) >>,
    << Rating(1, 3, 2, Some(4), None, FALSE) >> }

ReadInit ==
  /\ users = UserIds
  /\ lobbies = << [ leader_id |-> 1, finished |-> TRUE ],
                  [ leader_id |-> 1, finished |-> FALSE ] >>
  /\ teams = << [ lobby_id |-> 1, locked |-> TRUE, members |-> << 1, 2, 3 >> ],
                [ lobby_id |-> 2, locked |-> FALSE, members |-> << 1 >> ] >>
  /\ join_requests = << >>
  /\ invitations = << >>
  /\ ratings \in ReadRatings
  /\ accounts = seed_accounts(users) /\ session = NoUser
  /\ req \in { [ op |-> o, viewer |-> 1, lobby_id |-> 2, step |-> "start",
                 trust_rows |-> << >>, trust_scores |-> << >>, todo |-> << >>,
                 rep_rows |-> << >>, rep_by_id |-> << >>, out |-> None ] :
               o \in ReadOps }

\* The read request's steps, and the rating writes of other requests that
\* commit in between: a member of lobby 1 rates user 1 or takes a rating back.
ReadNext ==
  \/ read_trust
  \/ read_reputation
  \/ respond
  \/ \E user \in users, v \in { << 7, 10, TRUE >>, << 0, 0, FALSE >> } :
       rate_member_page(user, 1, 1, v)
  \/ \E user \in users, rating_id \in 1..Len(ratings) :
       delete_rating_page(user, 1, rating_id)

ReadSpec == ReadInit /\ [][ReadNext]_vars


\* ------------------------------------------------- the order rows are read in
\* The rows of the tables whose read order is varied: rows of one pair with
\* different values, a NULL axis, a self-rating, a row of local trust 0.
OrderRows ==
  { Rating(1, 1, 2, Some(10), Some(10), TRUE),
    Rating(1, 1, 2, Some(4), None, FALSE),
    Rating(2, 1, 2, Some(0), Some(0), FALSE),
    Rating(1, 3, 2, Some(7), Some(3), TRUE),
    Rating(1, 2, 1, Some(9), None, TRUE),
    Rating(1, 2, 3, None, Some(6), FALSE),
    Rating(1, 3, 3, Some(10), Some(10), TRUE) }

\* A rating table of three rows; the request is about to read it in the
\* order it is stored in (a query without ORDER BY promises no order).
OrderInit ==
  /\ users = UserIds
  /\ lobbies = << [ leader_id |-> 1, finished |-> TRUE ] >>
  /\ teams = << [ lobby_id |-> 1, locked |-> TRUE, members |-> << 1, 2, 3 >> ] >>
  /\ join_requests = << >> /\ invitations = << >>
  /\ ratings \in [ 1..3 -> OrderRows ]
  /\ accounts = seed_accounts(users) /\ session = NoUser
  /\ req = [ op |-> "rows", read |-> ratings ]

\* The database returns the rows in another order: two neighbours change
\* places.
read_in_other_order(k) ==
  /\ k \in 1..(Len(req.read) - 1)
  /\ req' = [ req EXCEPT !.read = [ @ EXCEPT ![k] = req.read[k + 1],
                                              ![k + 1] = req.read[k] ] ]
  /\ UNCHANGED << session, tables >>

OrderNext == \E k \in 1..2 : read_in_other_order(k)

OrderSpec == OrderInit /\ [][OrderNext]_vars


\* ----------------------------------------------------------- rating rings
\* The axis values of a ring's rows: the scale 0..10 and one value past
\* each end.
RingValues == { -1, 0, 1, 2, 3, 4, 5, 6, 7, 8, 9, 10, 11 }

\* The rings over the users: 1 -> 2 -> 3 -> 1 and 1 -> 3 -> 2 -> 1.
RingNext1 == << 2, 3, 1 >>
RingNext2 == << 3, 1, 2 >>

\* Every user has written one row, to the next user of the ring, all with
\* the same contribution and communication and would_work_again true; a
\* /users request has arrived.
RingInit ==
  /\ users = UserIds
  /\ lobbies = << [ leader_id |-> 1, finished |-> TRUE ] >>
  /\ teams = << [ lobby_id |-> 1, locked |-> TRUE, members |-> << 1, 2, 3 >> ] >>
  /\ join_requests = << >> /\ invitations = << >>
  /\ \E c \in RingValues, k \in RingValues, next \in { RingNext1, RingNext2 } :
       ratings = [ r \in 1..3 |-> Rating(1, r, next[r], Some(c), Some(k), TRUE) ]
  /\ accounts = seed_accounts(users) /\ session = NoUser
  /\ req = [ op |-> "users", viewer |-> 1, lobby_id |-> 1, step |-> "start",
             trust_rows |-> << >>, trust_scores |-> << >>, todo |-> << >>,
             rep_rows |-> << >>, rep_by_id |-> << >>, out |-> None ]

\* The request's steps, with no other request in between.
RingNext == read_trust \/ read_reputation \/ respond

RingSpec == RingInit /\ [][RingNext]_vars

\* ------------------------------------------------------ one pass, exactly
\* The pairs the rows of the table are written for, and the values of the
\* rows: row k of the table carries PassValues[(k + shift) % 3 + 1].
PassPairs == << << 1, 2 >>, << 2, 1 >>, << 2, 3 >>, << 3, 1 >> >>
PassValues ==
  << << Some(10), Some(10), TRUE >>, << Some(4), None, FALSE >>, << Some(0), None, FALSE >> >>

pass_rows(chosen, shift) ==
  LET sel == SelectSeq(PassPairs, LAMBDA pr : pr \in chosen) IN
  [ k \in 1..Len(sel) |->
      LET v == PassValues[((k + shift) % 3) + 1]
      IN  Rating(1, sel[k][1], sel[k][2], v[1], v[2], v[3]) ]

\* The vectors a pass is given: the uniform one the loop starts from, and
\* every vector of quarters that sums to 1.
PassVectors(us) ==
  { [ i \in us |-> Rat(1, Cardinality(us)) ] }
  \cup { [ i \in us |-> Rat(f[i], 4) ] : f \in { g \in [ us -> 0..4 ] : SumOver(g, us) = 4 } }

\* A table of rows among the users, all three or the first two, and a pass
\* about to be made from a vector.
PassInit ==
  /\ users \in { UserIds, UserIds \ { 3 } }
  /\ lobbies = << [ leader_id |-> 1, finished |-> TRUE ] >>
  /\ teams = << [ lobby_id |-> 1, locked |-> TRUE, members |-> << 1, 2, 3 >> ] >>
  /\ join_requests = << >> /\ invitations = << >>
  /\ \E chosen \in SUBSET { PassPairs[k] : k \in 1..Len(PassPairs) }, shift \in 0..2 :
       ratings = pass_rows(chosen, shift)
  /\ accounts = seed_accounts(users) /\ session = NoUser
  /\ \E t \in PassVectors(users) : req = [ op |-> "pass", t |-> t, new_t |-> None ]

\* One pass of the loop of compute_transitive_trust_scores over the table.
power_pass ==
  /\ req.new_t = None
  /\ req' = [ req EXCEPT !.new_t =
                The({ Some(power_step_exact(req.t, users, edges, outgoing_sum(edges, users))) :
                      edges \in { outgoing_by_idx(ratings, users) } }) ]
  /\ UNCHANGED << session, tables >>

PassNext == power_pass

PassSpec == PassInit /\ [][PassNext]_vars

\* ---------------------------------------------------------------- sessions
\* str.strip() and str.endswith() on strings as sequences of code points.
is_space(c) == c \in { 9, 10, 11, 12, 13, 32 }

RECURSIVE lstrip(_)
lstrip(s) == IF s # << >> /\ is_space(s[1]) THEN lstrip(Tail(s)) ELSE s

RECURSIVE rstrip(_)
rstrip(s) ==
  IF s # << >> /\ is_space(s[Len(s)]) THEN rstrip(SubSeq(s, 1, Len(s) - 1)) ELSE s

strip(s) == lstrip(rstrip(s))

endswith(s, suffix) ==
  Len(s) >= Len(suffix) /\ SubSeq(s, Len(s) - Len(suffix) + 1, Len(s)) = suffix

\* "@duke.edu", the suffix registration and POST /api/users require.
DukeEdu == << 64, 100, 117, 107, 101, 46, 101, 100, 117 >>

\* User.query.filter_by(email=email).first(): the table has no index on
\* email and the query no ORDER BY, so SQLite returns the matching row of
\* the lowest id. NoUser when there is none.
first_with_email(email) ==
  LET found == { u \in users : accounts[u].email = email } IN
  IF found = { } THEN NoUser ELSE CHOOSE u \in found : \A v \in found : u <= v

\* The id the table gives the next user row.
next_user_id == IF users = { } THEN 1 ELSE 1 + CHOOSE u \in users : \A v \in users : v <= u

\* get_current_user(): the user row of session["user_id"], or NoUser.
get_current_user == IF session = NoUser \/ session \notin users THEN NoUser ELSE session

\* What a request was given and what it returned: the status code and the
\* id of the user in the JSON body (NoUser: no user in the body).
reply(op, email, password, accept_json, status, user) ==
  [ op |-> op, email |-> email, password |-> password, accept_json |-> accept_json,
    status |-> status, user |-> user ]

\* POST /api/users: creates an account, does not touch the session.
api_users_post(email_in, password) ==
  LET email == strip(email_in)
      refused == /\ req' = reply("api_users", email_in, password, TRUE, 400, NoUser)
                 /\ UNCHANGED << session, tables >>
  IN
  IF email = << >> \/ ~endswith(lower(email), DukeEdu) THEN refused
  ELSE IF password = << >> THEN refused
  ELSE IF first_with_email(email) # NoUser THEN refused
  ELSE /\ Cardinality(users) < MaxUsers
       /\ users' = users \cup { next_user_id }
       /\ accounts' = [ u \in users \cup { next_user_id } |->
                          IF u \in users THEN accounts[u]
                          ELSE [ email |-> email,
                                 password_hash |-> generate_password_hash(password) ] ]
       /\ req' = reply("api_users", email_in, password, TRUE, 201, next_user_id)
       /\ UNCHANGED << session, lobbies, teams, join_requests, ratings, invitations >>

\* POST /login, with a form or a JSON body. Without Accept: application/json
\* a failure renders the login page (200) and a success redirects (302).
login(email_in, password, accept_json) ==
  LET email == strip(email_in)
      user == first_with_email(email)
      failed(status) ==
        /\ req' = reply("login", email_in, password, accept_json,
                        IF accept_json THEN status ELSE 200, NoUser)
        /\ UNCHANGED << session, tables >>
  IN
  IF email = << >> \/ password = << >> THEN failed(400)
  ELSE IF user = NoUser \/ accounts[user].password_hash = None THEN failed(401)
  ELSE IF ~check_password_hash(accounts[user].password_hash, password) THEN failed(401)
  ELSE /\ session' = user
       /\ req' = reply("login", email_in, password, accept_json,
                       IF accept_json THEN 200 ELSE 302, IF accept_json THEN user ELSE NoUser)
       /\ UNCHANGED tables

\* POST /logout.
logout(accept_json) ==
  /\ session' = NoUser
  /\ req' = reply("logout", << >>, << >>, accept_json, IF accept_json THEN 204 ELSE 302, NoUser)
  /\ UNCHANGED tables

\* POST /register: a form; every outcome is a redirect. A new account is
\* logged in at once.
register(email_in, password) ==
  LET email == strip(email_in)
      refused == /\ req' = reply("register", email_in, password, FALSE, 302, NoUser)
                 /\ UNCHANGED << session, tables >>
  IN
  IF email = << >> \/ ~endswith(lower(email), DukeEdu) THEN refused
  ELSE IF password = << >> \/ Len(password) < 6 THEN refused
  ELSE IF first_with_email(email) # NoUser THEN refused
  ELSE /\ Cardinality(users) < MaxUsers
       /\ users' = users \cup { next_user_id }
       /\ accounts' = [ u \in users \cup { next_user_id } |->
                          IF u \in users THEN accounts[u]
                          ELSE [ email |-> email,
                                 password_hash |-> generate_password_hash(password) ] ]
       /\ session' = next_user_id
       /\ req' = reply("register", email_in, password, FALSE, 302, NoUser)
       /\ UNCHANGED << lobbies, teams, join_requests, ratings, invitations >>

\* GET /me.
me(accept_json) ==
  /\ req' = reply("me", << >>, << >>, accept_json,
                  IF get_current_user = NoUser THEN (IF accept_json THEN 401 ELSE 302)
                  ELSE (IF accept_json THEN 200 ELSE 302),
                  IF accept_json THEN get_current_user ELSE NoUser)
  /\ UNCHANGED << session, tables >>

\* POST /users/<user_id> with field=email: a user may edit their own
\* profile; the value is stored stripped, None when empty, and is not
\* compared with the e-mails of the other accounts.
user_profile(user_id, value_in) ==
  LET value == strip(value_in) IN
  IF user_id \notin users
  THEN /\ req' = reply("user_profile", value_in, << >>, FALSE, 404, NoUser)
       /\ UNCHANGED << session, tables >>
  ELSE IF get_current_user = NoUser \/ get_current_user # user_id
  THEN /\ req' = reply("user_profile", value_in, << >>, FALSE, 302, NoUser)
       /\ UNCHANGED << session, tables >>
  ELSE /\ accounts' = [ accounts EXCEPT ![user_id].email = IF value = << >> THEN None ELSE value ]
       /\ req' = reply("user_profile", value_in, << >>, FALSE, 302, NoUser)
       /\ UNCHANGED << session, users, lobbies, teams, join_requests, ratings, invitations >>

\* The e-mails and passwords the requests are given: none, "a@duke.edu",
\* the same between blanks and in upper case, and two seeded e-mails; none,
\* the seeded password, "654321" and "abc".
EmailA == << 97 >> \o DukeEdu
SessionEmails ==
  { << >>, EmailA, << 32 >> \o EmailA \o << 32 >>,
    << 65, 64, 68, 85, 75, 69, 46, 69, 68, 85 >>, seed_email(1), seed_email(2) }
SessionPasswords ==
  { << >>, SeedPassword, << 54, 53, 52, 51, 50, 49 >>, << 97, 98, 99 >> }

SessionNext ==
  \/ \E email \in SessionEmails, password \in SessionPasswords : api_users_post(email, password)
  \/ \E email \in SessionEmails, password \in SessionPasswords, accept_json \in BOOLEAN :
       login(email, password, accept_json)
  \/ \E accept_json \in BOOLEAN : logout(accept_json)
  \/ \E email \in SessionEmails, password \in SessionPasswords : register(email, password)
  \/ \E accept_json \in BOOLEAN : me(accept_json)
  \/ \E user_id \in users \cup { NoUser }, value \in { << >>, EmailA } :
       user_profile(user_id, value)

SessionSpec == Init /\ [][SessionNext]_vars

\* ------------------------------------------- requests of the session's user
\* The lobby and join-request handlers as one client reaches them: the
\* user of a request is get_current_user(), the seeded users log in with
\* their own e-mail and password, and POST /api/teams/<team_id>/lock reads
\* no session. A handler that finds no user redirects to the login page or
\* answers 401 and writes nothing.
LeaderNext ==
  \/ \E u \in users : login(seed_email(u), SeedPassword, FALSE)
  \/ logout(FALSE)
  \/ \E title \in { "", "t" } :
       IF get_current_user = NoUser THEN UNCHANGED vars
       ELSE create_lobby_page(get_current_user, title)
  \/ \E lobby_id \in 1..Len(lobbies) :
       IF get_current_user = NoUser THEN UNCHANGED vars
       ELSE create_join_request_page(get_current_user, lobby_id)
  \/ \E lobby_id \in 1..Len(lobbies) :
       IF get_current_user = NoUser THEN UNCHANGED vars
       ELSE api_create_join_request(get_current_user, lobby_id)
  \/ \E lobby_id \in 1..Len(lobbies), request_id \in 1..Len(join_requests),
        decision \in { "accept", "reject" } :
       IF get_current_user = NoUser THEN UNCHANGED vars
       ELSE decide_join_request_page(get_current_user, lobby_id, request_id, decision)
  \/ \E lobby_id \in 1..Len(lobbies), request_id \in 1..Len(join_requests),
        decision \in { "accept", "reject" } :
       IF get_current_user = NoUser THEN UNCHANGED vars
       ELSE api_decide_join_request(get_current_user, lobby_id, request_id, decision)
  \/ \E lobby_id \in 1..Len(lobbies), action \in { "lock_team", "finish_contest", "save" } :
       lobby_detail(get_current_user, lobby_id, action)
  \/ \E team_id \in 1..Len(teams) : lock_team(team_id)

LeaderSpec == Init /\ [][LeaderNext]_vars

\* ------------------------------------------------- rewriting a rating
\* The rows a table holds before a rating form is submitted: two rows of
\* the triple (team 1, rater 2, target 1), as POST /api/teams/1/ratings
\* leaves them, a row of another rater, and a row of the same rater and
\* target in another team.
RewriteRows ==
  { Rating(1, 2, 1, Some(10), Some(10), TRUE), Rating(1, 2, 1, Some(4), Some(4), FALSE),
    Rating(1, 3, 1, Some(7), Some(7), TRUE), Rating(2, 2, 1, Some(7), Some(7), TRUE) }

RewriteTables ==
  { << >> } \cup UNION { [ 1..n -> RewriteRows ] : n \in 1..3 }

\* A finished lobby with its team of three and a table of rows; req keeps
\* the table as it was.
RewriteInit ==
  /\ users = UserIds
  /\ lobbies = << [ leader_id |-> 1, finished |-> TRUE ] >>
  /\ teams = << [ lobby_id |-> 1, locked |-> TRUE, members |-> << 1, 2, 3 >> ] >>
  /\ join_requests = << >> /\ invitations = << >>
  /\ ratings \in RewriteTables
  /\ accounts = seed_accounts(users) /\ session = NoUser
  /\ req = [ op |-> "rate", before |-> ratings ]

RewriteNext ==
  \E user \in users, target_user_id \in users \cup { NoUser }, v \in FormValues :
    rate_member_page(user, 1, target_user_id, v)

RewriteSpec == RewriteInit /\ [][RewriteNext]_vars

\* ------------------------------------------------- acceptances in steps
\* Two requests that may add user 2 to team 1 are in flight, each in its
\* own thread and database session: a decision of the leader on the join
\* request of user 2 (page or JSON) or a response to the invitation of
\* user 2. A request first reads (the request or invitation, the lobby,
\* the team and team.members, which the session then keeps) and decides
\* what it will write; db.session.commit() writes it later. The queries
\* run outside a transaction (pysqlite begins one at the first INSERT or
\* UPDATE), so the other request may commit in between.
AcceptHandlers == { "decide_join_request_page", "api_decide_join_request", "respond_invite" }

AcceptInit ==
  /\ users = UserIds
  /\ lobbies = << [ leader_id |-> 1, finished |-> FALSE ] >>
  /\ teams = << [ lobby_id |-> 1, locked |-> FALSE, members |-> << 1 >> ] >>
  /\ join_requests = << [ lobby_id |-> 1, team_id |-> 1, requester_id |-> 2,
                          status |-> "pending" ] >>
  /\ invitations = << [ lobby_id |-> 1, team_id |-> 1, applicant_id |-> 1,
                        target_user_id |-> 2, status |-> "pending" ] >>
  /\ ratings = << >>
  /\ accounts = seed_accounts(users) /\ session = NoUser
  /\ \E h1 \in AcceptHandlers, h2 \in AcceptHandlers,
        d1 \in { "accept", "reject" }, d2 \in { "accept", "reject" } :
       req = << [ handler |-> h1, decision |-> d1, step |-> "start", plan |-> "nothing" ],
                [ handler |-> h2, decision |-> d2, step |-> "start", plan |-> "nothing" ] >>

\* What a request decides to write, from what it reads now: nothing (an
\* early return), a rejection, an acceptance alone (the user is already
\* among team.members) or an acceptance with a new TeamMember row.
acceptance_plan(handler, decision) ==
  IF handler = "respond_invite"
  THEN IF invitations[1].status # "pending" THEN "nothing"
       ELSE IF decision = "reject" THEN "reject"
       ELSE IF ~invite_may_join(invitations[1].team_id) THEN "nothing"
       ELSE IF invitations[1].target_user_id \in member_ids(invitations[1].team_id)
       THEN "accept" ELSE "accept_and_add"
  ELSE IF \/ join_requests[1].status # "pending"
          \/ lobbies[1].finished \/ teams[1].locked THEN "nothing"
       ELSE IF decision = "reject" THEN "reject"
       ELSE IF join_requests[1].requester_id \in member_ids(1)
       THEN "accept" ELSE "accept_and_add"

\* The request's queries and tests, up to Team.add_member's.
acceptance_reads(p) ==
  /\ req[p].step = "start"
  /\ req' = [ req EXCEPT ![p].step = "read",
                         ![p].plan = acceptance_plan(req[p].handler, req[p].decision) ]
  /\ UNCHANGED << session, tables >>

\* db.session.commit(): the status and, if add_member added one, the
\* TeamMember row.
acceptance_commits(p) ==
  LET status == IF req[p].plan = "reject" THEN "rejected" ELSE "accepted" IN
  /\ req[p].step = "read"
  /\ req' = [ req EXCEPT ![p].step = "done" ]
  /\ IF req[p].plan = "nothing"
     THEN UNCHANGED << join_requests, invitations >>
     ELSE IF req[p].handler = "respond_invite"
     THEN /\ invitations' = [ invitations EXCEPT ![1].status = status ]
          /\ UNCHANGED join_requests
     ELSE /\ join_requests' = [ join_requests EXCEPT ![1].status = status ]
          /\ UNCHANGED invitations
  /\ teams' = IF req[p].plan = "accept_and_add"
              THEN [ teams EXCEPT ![1].members = Append(@, 2) ]
              ELSE teams
  /\ UNCHANGED << session, accounts, users, lobbies, ratings >>

AcceptNext ==
  \/ \E p \in { 1, 2 } : acceptance_reads(p)
  \/ \E p \in { 1, 2 } : acceptance_commits(p)

AcceptSpec == AcceptInit /\ [][AcceptNext]_vars

\* ------------------------------------------------------------------ claims
\* A step that appends one row to the rating table, and the row it appends.
Inserted ==
  /\ Len(ratings') = Len(ratings) + 1
  /\ SubSeq(ratings', 1, Len(ratings)) = ratings
NewRow == ratings'[Len(ratings')]

\* The last row of the table was inserted after EngineInit.
LastInserted == Len(ratings) > initial_rows
LastRow == ratings[Len(ratings)]

same_core(a, b) ==
  /\ a.contribution_avg = b.contribution_avg
  /\ a.communication_avg = b.communication_avg
  /\ a.would_work_again_ratio = b.would_work_again_ratio

\* C1: with at least one user, the trust vector holds one score per user,
\* every score is >= 0 and the scores sum to 1, to within one grid unit
\* 1/Scale per user.
C1_TrustIsDistribution ==
  users # {} =>
    LET t == trust_now IN
    /\ DOMAIN t = users
    /\ \A u \in users : t[u] >= 0
    /\ Abs(SumOver(t, users) - Scale) <= Cardinality(users)

\* C1 witness: a table with an edge, whose trust vector is not uniform.
C1_Witness ==
  /\ users # {} /\ ratings # << >>
  /\ \E u, v \in users : trust_now[u] > trust_now[v]

\* C2: inserting an exact duplicate of any existing row leaves the
\* target's contribution_avg, communication_avg and would_work_again_ratio
\* unchanged and raises its rating_count by exactly 1.
C2_DuplicateImmunityAnyState ==
  [][ (Inserted /\ \E k \in 1..Len(ratings) : ratings[k] = NewRow) =>
        LET tgt == NewRow.target_user_id
            b == reputation(ratings, tgt, compute_transitive_trust_scores(ratings, users))
            a == reputation(ratings', tgt, compute_transitive_trust_scores(ratings', users'))
        IN  same_core(a, b) /\ a.rating_count = b.rating_count + 1 ]_vars

\* C3: inserting an exact duplicate of any existing row leaves
\* every user's trust score unchanged.
C3_TrustDuplicateImmunityAnyState ==
  [][ (Inserted /\ \E k \in 1..Len(ratings) : ratings[k] = NewRow) =>
        compute_transitive_trust_scores(ratings', users')
          = compute_transitive_trust_scores(ratings, users) ]_vars

\* C4: inserting a row whose rater is its target changes no user's trust
\* score and no user's contribution_avg, communication_avg or
\* would_work_again_ratio.
C4_SelfRatingImmunity ==
  [][ (Inserted /\ NewRow.rater_id = NewRow.target_user_id) =>
        LET tb == compute_transitive_trust_scores(ratings, users)
            ta == compute_transitive_trust_scores(ratings', users')
        IN  /\ ta = tb
            /\ \A u \in users :
                 same_core(reputation(ratings', u, ta), reputation(ratings, u, tb)) ]_vars

\* C5: in every state the rating handlers reach, every user's averages lie
\* in [0, 10], the ratio is null or in [0, 1], and rating_count >= 0.
C5_ReputationRanges ==
  \A u \in users :
    LET rep == reputation_now(u) IN
    /\ 0 <= rep.contribution_avg /\ rep.contribution_avg <= 1000
    /\ 0 <= rep.communication_avg /\ rep.communication_avg <= 1000
    /\ \/ rep.would_work_again_ratio = None
       \/ (RLe(RZero, rep.would_work_again_ratio) /\ RLe(rep.would_work_again_ratio, << 1, 1 >>))
    /\ rep.rating_count >= 0

\* C6: there is at most one rating row per (team, rater, target).
C6_OneRowPerTriple ==
  \A j, k \in 1..Len(ratings) :
    ( /\ ratings[j].team_id = ratings[k].team_id
      /\ ratings[j].rater_id = ratings[k].rater_id
      /\ ratings[j].target_user_id = ratings[k].target_user_id ) => j = k

\* How many rows of `rows` equal `row`.
copies(rows, row) == Cardinality({ k \in 1..Len(rows) : rows[k] = row })

\* The claim's conditions on a row, in the state the row is written in.
valid_rating(row) ==
  /\ row.rater_id # row.target_user_id
  /\ row.team_id \in 1..Len(teams)
  /\ row.rater_id \in member_ids(row.team_id)
  /\ row.target_user_id \in member_ids(row.team_id)
  /\ teams[row.team_id].lobby_id \in 1..Len(lobbies)
  /\ lobbies[teams[row.team_id].lobby_id].finished

\* C7: every row a handler creates or rewrites has rater # target, rater
\* and target members of the row's team, and the team's lobby finished at
\* the time of the write: no step brings a row into the table that fails
\* one of these in the state the step starts from, and a step that changes
\* the table either brings in such a row or only removes rows.
C7_HandlersWriteValidRows ==
  [][ /\ \A k \in 1..Len(ratings') :
           copies(ratings', ratings'[k]) > copies(ratings, ratings'[k])
             => valid_rating(ratings'[k])
      /\ ratings' # ratings =>
           \/ \E k \in 1..Len(ratings') :
                copies(ratings', ratings'[k]) > copies(ratings, ratings'[k])
           \/ /\ Len(ratings') < Len(ratings)
              /\ \A k \in 1..Len(ratings') :
                   copies(ratings', ratings'[k]) <= copies(ratings, ratings'[k]) ]_vars

\* C7 witness: a handler has written a row, and a second one rewrote or
\* followed it.
C7_Witness ==
  /\ Len(ratings) = 2
  /\ ratings[1].rater_id # ratings[2].rater_id

\* The rows of the ordered pair (r, t), and those of local trust > 0,
\* with the pair's mean local trust over a set K of such rows.
rows_of_pair(r, t) ==
  { k \in 1..Len(ratings) : ratings[k].rater_id = r /\ ratings[k].target_user_id = t }
positive_rows_of_pair(r, t) ==
  { k \in rows_of_pair(r, t) :
      (IF ratings[k].contribution = None THEN 0
       ELSE IF ratings[k].contribution[1] > 10 THEN 10
       ELSE IF ratings[k].contribution[1] < 0 THEN 0 ELSE ratings[k].contribution[1])
      + (IF ratings[k].communication = None THEN 0
         ELSE IF ratings[k].communication[1] > 10 THEN 10
         ELSE IF ratings[k].communication[1] < 0 THEN 0 ELSE ratings[k].communication[1])
      + (IF ratings[k].would_work_again THEN 10 ELSE 0) > 0 }
mean_local(K) == Rat(SumOver([ k \in 1..Len(ratings) |-> local(ratings[k]) ], K),
                     LocalDen * Cardinality(K))

\* The weight the iterator uses for (r, t): the edge's, 0 without an edge.
weight_used(r, t) ==
  LET edges == outgoing_by_idx(ratings, users)
  IN  IF << r, t >> \in DOMAIN edges THEN edges[<< r, t >>] ELSE RZero

\* C8 as stated: the edge weight of a pair with rows is the mean of the
\* local trust over all rows of the pair.
C8_EdgeIsMeanOfAllRows ==
  \A r \in users, t \in users :
    (r # t /\ rows_of_pair(r, t) # {}) => weight_used(r, t) = mean_local(rows_of_pair(r, t))

\* C8 amended: the edge weight of a pair is the mean of the local trust
\* over the pair's rows whose local trust is > 0 (a row of local trust 0 is
\* dropped before the averaging); a pair without such a row has no edge.
C8_EdgeIsMeanOfPositiveRows ==
  \A r \in users, t \in users :
    r # t =>
      LET K == positive_rows_of_pair(r, t)
          edges == outgoing_by_idx(ratings, users)
      IN  IF K = {} THEN << r, t >> \notin DOMAIN edges
          ELSE << r, t >> \in DOMAIN edges /\ edges[<< r, t >>] = mean_local(K)

\* C8 witness: a pair of users with two rows of different positive local
\* trust and a row of local trust 0.
C8_Witness ==
  \E r \in users, t \in users :
    /\ r # t
    /\ positive_rows_of_pair(r, t) # rows_of_pair(r, t)
    /\ \E j, k \in positive_rows_of_pair(r, t) : local(ratings[j]) # local(ratings[k])

\* A row whose axes are null or <= 0 and whose would_work_again is false.
zero_row(row) ==
  /\ (row.contribution = None \/ row.contribution[1] <= 0)
  /\ (row.communication = None \/ row.communication[1] <= 0)
  /\ ~row.would_work_again

\* C9: inserting a row of local trust 0 changes no collapsed edge and no
\* trust score.
C9_ZeroWeightImmunity ==
  [][ (Inserted /\ zero_row(NewRow)) =>
        /\ outgoing_by_idx(ratings', users') = outgoing_by_idx(ratings, users)
        /\ compute_transitive_trust_scores(ratings', users')
             = compute_transitive_trust_scores(ratings, users) ]_vars

\* C9 witness: a row of local trust 0 was inserted between two users whose
\* pair has an edge.
C9_Witness ==
  /\ LastInserted
  /\ zero_row(LastRow)
  /\ << LastRow.rater_id, LastRow.target_user_id >> \in DOMAIN outgoing_by_idx(ratings, users)

\* The raters that count for an axis of `target`: positive trust and at
\* least one non-null value; a rater's mean over all its rows for `target`;
\* and the weighted mean of the raters' means.
axis(row, name) == IF name = "contribution" THEN row.contribution ELSE row.communication
axis_rows(target, r, name) ==
  { k \in 1..Len(ratings) : /\ ratings[k].target_user_id = target
                            /\ ratings[k].rater_id = r
                            /\ axis(ratings[k], name) # None }
trust_of(t, r) == IF r \in DOMAIN t THEN t[r] ELSE 0
axis_raters(target, t, name) ==
  { r \in UserIds : trust_of(t, r) > 0 /\ axis_rows(target, r, name) # {} }
axis_mean(target, r, name) ==
  Rat(SumOver([ k \in 1..Len(ratings) |-> IF axis(ratings[k], name) = None THEN 0
                                          ELSE axis(ratings[k], name)[1] ],
              axis_rows(target, r, name)),
      Cardinality(axis_rows(target, r, name)))
weighted_mean(target, t, name) ==
  LET R == axis_raters(target, t, name)
  IN  RDiv(RSumOver([ r \in R |-> RMul(<< trust_of(t, r), 1 >>, axis_mean(target, r, name)) ], R),
           << SumOver([ r \in R |-> trust_of(t, r) ], R), 1 >>)

\* C10 as stated: contribution_avg and communication_avg equal the weighted
\* mean of the raters' means, and 0 without a rater that counts.
C10_AverageIsWeightedMean ==
  \A target \in users :
    LET t == trust_now
        rep == reputation(ratings, target, t)
    IN  /\ IF axis_raters(target, t, "contribution") = {} THEN rep.contribution_avg = 0
           ELSE Rat(rep.contribution_avg, 100) = weighted_mean(target, t, "contribution")
        /\ IF axis_raters(target, t, "communication") = {} THEN rep.communication_avg = 0
           ELSE Rat(rep.communication_avg, 100) = weighted_mean(target, t, "communication")

\* C10 amended: contribution_avg and communication_avg equal the weighted
\* mean of the raters' means rounded to two decimals, and 0 without a rater
\* that counts.
C10_AverageIsRoundedWeightedMean ==
  \A target \in users :
    LET t == trust_now
        rep == reputation(ratings, target, t)
    IN  /\ IF axis_raters(target, t, "contribution") = {} THEN rep.contribution_avg = 0
           ELSE rep.contribution_avg = round2(weighted_mean(target, t, "contribution"))
        /\ IF axis_raters(target, t, "communication") = {} THEN rep.communication_avg = 0
           ELSE rep.communication_avg = round2(weighted_mean(target, t, "communication"))

\* C10 witness: a target rated on contribution by two raters of different
\* trust and different means, one of them with two rows.
C10_Witness ==
  \E target \in users :
    \E r, q \in axis_raters(target, trust_now, "contribution") :
      /\ trust_now[r] # trust_now[q]
      /\ axis_mean(target, r, "contribution") # axis_mean(target, q, "contribution")
      /\ Cardinality(axis_rows(target, r, "contribution")) >= 2

\* The users no rating row targets.
unrated(u) == \A k \in 1..Len(ratings) : ratings[k].target_user_id # u

\* C11: a user who is the target of no rating row has reputation
\* {contribution_avg 0, communication_avg 0, would_work_again_ratio null,
\* rating_count 0}, whatever the other rows are.
C11_UnratedUserIsZero ==
  \A u \in users :
    unrated(u) =>
      reputation_now(u) = [ contribution_avg |-> 0, communication_avg |-> 0,
                            would_work_again_ratio |-> None, rating_count |-> 0 ]

\* C11 witness: an unrated user who has rated another user, in a table
\* where some user has a nonzero average.
C11_Witness ==
  \E u \in users, v \in users :
    /\ unrated(u)
    /\ \E k \in 1..Len(ratings) : ratings[k].rater_id = u /\ ratings[k].target_user_id = v
    /\ reputation_now(v).contribution_avg > 0

\* Some row is a usable edge: rater # target, both in the user table, and a
\* local trust > 0.
usable_edge == \E r \in users, t \in users : r # t /\ positive_rows_of_pair(r, t) # {}

\* C12: the trust computation is defined on every table; with no users it
\* returns the empty map, and with n > 0 users and no usable edge (no rows,
\* or only self-ratings, zero rows and rows of unknown users) every user's
\* score is 1/n, the grid's Scale \div n.
C12_NoEdgesIsUniform ==
  /\ users = {} => trust_now = << >>
  /\ (users # {} /\ ~usable_edge) =>
       \A t \in { trust_now } :
         /\ DOMAIN t = users
         /\ \A u \in users : t[u] = Scale \div Cardinality(users)

\* C12 witness: users, and a table that holds a self-rating and a zero row
\* but no usable edge.
C12_Witness ==
  /\ users # {} /\ ~usable_edge /\ trust_now # << >>
  /\ \E k \in 1..Len(ratings) : ratings[k].rater_id = ratings[k].target_user_id
                                /\ ~zero_row(ratings[k])
  /\ \E k \in 1..Len(ratings) : ratings[k].rater_id # ratings[k].target_user_id
                                /\ zero_row(ratings[k])

\* The clamps of the claim: an average (hundredths) cut to 0..1000, and a
\* ratio p/q cut to 0..1, null counted as 0.
cut_avg(h) == IF h < 0 THEN 0 ELSE IF h > 1000 THEN 1000 ELSE h
cut_ratio(w) ==
  IF w = None \/ w[1] <= 0 THEN << 0, 1 >> ELSE IF w[1] >= w[2] THEN << 1, 1 >> ELSE w

\* m is N/D rounded to the nearest integer, ties to the even one (D > 0).
is_rounded(m, N, D) ==
  /\ 2 * Abs(D * m - N) <= D
  /\ 2 * Abs(D * m - N) = D => m % 2 = 0

\* C13: for every reputation dict, and for a missing one, the overall score
\* lies in [0, 10] and is 10 * (clamp(contribution_avg / 10) +
\* clamp(communication_avg / 10) + clamp(ratio or 0)) / 3 rounded to two
\* decimals: in hundredths, (cut_avg(c) + cut_avg(k) + 1000 * p/q) / 3.
C13_OverallScore ==
  (req # None /\ req.op = "score" /\ req.out # None) =>
    LET out == req.out[1]
        c == IF req.rep = None THEN 0 ELSE cut_avg(req.rep[1].contribution_avg)
        k == IF req.rep = None THEN 0 ELSE cut_avg(req.rep[1].communication_avg)
        w == IF req.rep = None THEN << 0, 1 >> ELSE cut_ratio(req.rep[1].would_work_again_ratio)
    IN  /\ 0 <= out /\ out <= 1000
        /\ is_rounded(out, w[2] * (c + k) + 1000 * w[1], 3 * w[2])

\* C13 witness: a score computed from a dict with an average above 10, an
\* average below 0 and a ratio above 1, that needed rounding.
C13_Witness ==
  /\ req # None /\ req.op = "score" /\ req.out # None /\ req.rep # None
  /\ req.rep[1].contribution_avg > 1000
  /\ req.rep[1].communication_avg = 333
  /\ req.rep[1].would_work_again_ratio = << 3, 2 >>
  /\ req.out[1] = 778

\* An axis cut to 0..10, NULL counted as 0.
cut_axis(v) == IF v = None THEN 0 ELSE IF v[1] < 0 THEN 0 ELSE IF v[1] > 10 THEN 10 ELSE v[1]

\* C14: the local trust of a row is (clamp(contribution, 0, 10) / 10 +
\* clamp(communication, 0, 10) / 10 + (1 if would_work_again else 0)) / 3
\* with a null axis counted as 0, and lies in [0, 1]: in units of 1/LocalDen,
\* the two cut axes plus 10 for would_work_again, between 0 and LocalDen.
C14_LocalTrust ==
  (req # None /\ req.op = "local" /\ req.out # None) =>
    /\ 0 <= req.out[1] /\ req.out[1] <= LocalDen
    /\ 10 * 3 * req.out[1]
         = LocalDen * (cut_axis(req.row.contribution) + cut_axis(req.row.communication)
                       + (IF req.row.would_work_again THEN 10 ELSE 0))

\* C14 witness: the local trust of a row with one axis above 10 and the
\* other below 0 has been computed.
C14_Witness ==
  /\ req # None /\ req.op = "local" /\ req.out # None
  /\ req.row.contribution = Some(11) /\ req.row.communication = Some(-1)
  /\ req.row.would_work_again
  /\ req.out[1] = 20

\* The list a finished lobby-ordering request returned, and the claim's
\* joinable: the viewer is neither the leader nor a member of the team, the
\* lobby is not finished and its team is not locked.
ranked == req # None /\ req.op = "lobbies" /\ req.out # None
joinable(viewer, lobby_id) ==
  /\ lobbies[lobby_id].leader_id # viewer
  /\ \A t \in 1..Len(teams) :
       teams[t].lobby_id = lobby_id =>
         /\ \A k \in 1..Len(teams[t].members) : teams[t].members[k] # viewer
         /\ ~teams[t].locked
  /\ ~lobbies[lobby_id].finished

team_members(lobby_id) ==
  The({ teams[t].members : t \in { t \in 1..Len(teams) : teams[t].lobby_id = lobby_id } })
team_sum(lobby_id) ==
  LET ms == team_members(lobby_id) IN
  SumOver([ k \in 1..Len(ms) |-> req.rep_score_by_id[ms[k]] ], 1..Len(ms))
exact_distance(lobby_id) ==
  LET n == Len(team_members(lobby_id)) IN
  IF n = 0 THEN Rat(req.rep_score_by_id[req.viewer], 1)
  ELSE Rat(Abs(team_sum(lobby_id) - n * req.rep_score_by_id[req.viewer]), n)
rounded_distance(lobby_id) ==
  LET n == Len(team_members(lobby_id))
      team_rep == IF n = 0 THEN 0 ELSE round2(Rat(team_sum(lobby_id), 100 * n))
  IN  Rat(Abs(team_rep - req.rep_score_by_id[req.viewer]), 1)

\* Newest first: the baseline position of a lobby.
baseline_pos(lobby_id) == Len(lobbies) + 1 - lobby_id

\* The returned list is a permutation of the lobbies; with no viewer it is
\* the baseline; with a viewer, inside the joinable and inside the
\* non-joinable group the distance D never decreases and equal distances
\* keep the baseline order.
ordered_by(D(_)) ==
  LET out == req.out[1] IN
  /\ Len(out) = Len(lobbies)
  /\ \A l \in 1..Len(lobbies) : \E i \in 1..Len(out) : out[i].id = l
  /\ req.viewer = NoUser => \A i \in 1..Len(out) : baseline_pos(out[i].id) = i
  /\ req.viewer # NoUser =>
       \A i, j \in 1..Len(out) :
         ( /\ i < j
           /\ joinable(req.viewer, out[i].id) = joinable(req.viewer, out[j].id) ) =>
           /\ RLe(D(out[i].id), D(out[j].id))
           /\ D(out[i].id) = D(out[j].id) => baseline_pos(out[i].id) < baseline_pos(out[j].id)

\* C16 as stated: the returned list is a permutation, the baseline without
\* a viewer, and in each group ordered by |team_rep - viewer_rep| with
\* team_rep the mean score of the members, ties in baseline order.
C16_OrderedByMeanDistance == ranked => ordered_by(exact_distance)

\* C16, amended: the same with team_rep the mean score of the members
\* rounded to two decimals.
C16_OrderedByRoundedMeanDistance == ranked => ordered_by(rounded_distance)

\* C16 witness: a returned list for a viewer with two joinable lobbies that
\* the ordering swapped, and two whose equal distance left them in baseline
\* order.
C16_Witness ==
  /\ ranked /\ req.viewer # NoUser
  /\ \A l \in 1..3 : joinable(req.viewer, l)
  /\ req.out[1][1].id = 1 /\ req.out[1][2].id = 3 /\ req.out[1][3].id = 2
  /\ rounded_distance(1) # rounded_distance(3)
  /\ rounded_distance(3) = rounded_distance(2)
  /\ team_members(2) # team_members(3)

\* A finished suggestions request, by the endpoint or by the page; the ids
\* it listed; whether the viewer leads the lobby; whether suggestions are
\* open (the lobby not finished, its team not locked).
suggested == req # None /\ req.op \in { "invite_suggestions", "lobby_detail" } /\ req.out # None
suggested_ids ==
  IF req.out[1].body = None THEN {}
  ELSE { req.out[1].body[1][k].id : k \in 1..Len(req.out[1].body[1]) }
leads == req.viewer # NoUser /\ lobbies[req.lobby_id].leader_id = req.viewer
team_of_request == The({ t \in 1..Len(teams) : teams[t].lobby_id = req.lobby_id })
team_open == ~lobbies[req.lobby_id].finished /\ ~teams[team_of_request].locked
is_member(u) ==
  \E k \in 1..Len(teams[team_of_request].members) : teams[team_of_request].members[k] = u
is_invited(u) ==
  \E i \in 1..Len(invitations) :
    /\ invitations[i].team_id = team_of_request
    /\ invitations[i].status = "pending"
    /\ invitations[i].target_user_id = u
is_error == req.out[1].status # 200 /\ req.out[1].body = None

\* What holds of both the endpoint and the page: a leader's list for an
\* open team holds no member, not the viewer and no user with a pending
\* invitation of this team; for a finished lobby or a locked team the
\* leader's list is empty.
suggestions_exclude ==
  (suggested /\ leads) =>
    /\ req.out[1].body # None
    /\ team_open => \A u \in suggested_ids : ~is_member(u) /\ u # req.viewer /\ ~is_invited(u)
    /\ ~team_open => req.out[1].body[1] = << >>

\* C17 as stated: the exclusions and the empty list, and a viewer who does
\* not lead the lobby gets an error instead of a list.
C17_SuggestionsExcludeAndNonLeaderError ==
  /\ suggestions_exclude
  /\ (suggested /\ ~leads) => is_error

\* C17, amended: the exclusions and the empty list; a viewer who does not
\* lead the lobby gets an error from the endpoint and an empty list on the
\* lobby page.
C17_SuggestionsExcludeAndNonLeaderNothing ==
  /\ suggestions_exclude
  /\ (suggested /\ ~leads) =>
       IF req.op = "invite_suggestions" THEN is_error
       ELSE req.out[1].body = Some(<< >>)

\* C17 witness: the leader of an open team with a member and a pending
\* invitation got a list of five.
C17_Witness ==
  /\ suggested /\ leads /\ team_open
  /\ is_member(2) /\ is_invited(3)
  /\ Cardinality(suggested_ids) = 5

\* The eligible users of a suggestions request, and the claim's key of a
\* user compared: (|overall(u) - overall(viewer)|, lowercase name).
eligible == { u \in users : ~is_member(u) /\ u # req.viewer /\ ~is_invited(u) }
distance_to_viewer(u) == Abs(req.rep_score_by_id[u] - req.rep_score_by_id[req.viewer])
suggest_key_less(u, v) ==
  \/ distance_to_viewer(u) < distance_to_viewer(v)
  \/ /\ distance_to_viewer(u) = distance_to_viewer(v)
     /\ str_less(lower(SuggestNames[u]), lower(SuggestNames[v]))

\* C18: the leader's list for an open team holds min(5, number of
\* eligible) distinct eligible users in ascending key order, and no
\* eligible user left out has a strictly smaller key than a listed one.
C18_TopFiveByKey ==
  (suggested /\ leads /\ team_open) =>
    LET out == req.out[1].body[1] IN
    /\ Len(out) = IF Cardinality(eligible) > 5 THEN 5 ELSE Cardinality(eligible)
    /\ Cardinality(suggested_ids) = Len(out)
    /\ suggested_ids \subseteq eligible
    /\ \A i, j \in 1..Len(out) : i < j => ~suggest_key_less(out[j].id, out[i].id)
    /\ \A u \in eligible \ suggested_ids :
         \A v \in suggested_ids : ~suggest_key_less(u, v)

\* C18 witness: seven eligible users, five listed, two of them at one
\* distance and ordered by their lowercase names.
C18_Witness ==
  /\ suggested /\ leads /\ team_open
  /\ Cardinality(eligible) = 7
  /\ Len(req.out[1].body[1]) = 5
  /\ \E k \in 1..4 :
       /\ req.out[1].body[1][k].distance = req.out[1].body[1][k + 1].distance
       /\ str_less(lower(req.out[1].body[1][k].name), lower(req.out[1].body[1][k + 1].name))
  /\ \E k \in 1..4 : req.out[1].body[1][k].distance < req.out[1].body[1][k + 1].distance

\* C19: the engine is read-only: a step of a request that computes the
\* trust vector, a reputation, the lobby ranking, invite suggestions or the
\* /api/graph document leaves every persisted table as it was.
C19_ReadsLeaveTables == [][ req' # req => tables' = tables ]_vars

\* C19 witness: a /api/graph request has answered over a rating table that
\* holds a row, after computing three reputations.
C19_Witness ==
  /\ req # None /\ req.op = "graph" /\ req.step = "done"
  /\ ratings # << >> /\ req.trust_rows # << >>
  /\ DOMAIN req.rep_by_id = users

\* The rows of the trust computation's read that rate user u.
trust_rows_rating(u) == rows_rating(req.trust_rows, u)

\* C20: in a request that computes the trust vector and then reputations
\* from it, the rows each reputation was aggregated from are the rows
\* rating that user among those the trust vector was computed from, also
\* when a rating write or delete of another request committed in between.
C20_ReputationReadsTrustRows ==
  (req # None /\ req.step \in { "reps", "done" }) =>
    \A u \in DOMAIN req.rep_rows : req.rep_rows[u] = trust_rows_rating(u)

\* The edges of the /api/graph document of the current rating table, and
\* the rating rows of an ordered pair.
edges_now == api_graph_edges(ratings)
pair_rows(r, t) ==
  { k \in 1..Len(ratings) : ratings[k].rater_id = r /\ ratings[k].target_user_id = t }

\* C21: every edge of the /api/graph document has source # target and a
\* weight in (0, 1], stands for a pair with at least one rating row, and no
\* pair has two edges.
C21_GraphEdges ==
  \A es \in { edges_now } :
    \A i \in 1..Len(es) :
      /\ es[i].source # es[i].target
      /\ es[i].weight[1] > 0 /\ RLe(es[i].weight, << 1, 1 >>)
      /\ pair_rows(es[i].source, es[i].target) # {}
      /\ \A j \in 1..Len(es) :
           (es[j].source = es[i].source /\ es[j].target = es[i].target) => j = i

\* C21 witness: the table holds a self-rating, a row of local trust 0 and
\* two rows of one pair, and the document has an edge.
C21_Witness ==
  /\ \E k \in 1..Len(ratings) : ratings[k].rater_id = ratings[k].target_user_id
  /\ \E k \in 1..Len(ratings) : local(ratings[k]) = 0
  /\ \E r, t \in UserIds : r # t /\ Cardinality(pair_rows(r, t)) >= 2
  /\ Len(edges_now) >= 1

\* C22 as stated: the count of every edge is the number of rating rows of
\* its ordered pair.
C22_CountIsRowCount ==
  \A es \in { edges_now } :
    \A i \in 1..Len(es) :
      es[i].count = Cardinality(pair_rows(es[i].source, es[i].target))

\* C22, amended: the count of every edge is the number of rating rows of
\* its ordered pair whose local trust is positive.
C22_CountIsPositiveRowCount ==
  \A es \in { edges_now } :
    \A i \in 1..Len(es) :
      es[i].count = Cardinality({ k \in pair_rows(es[i].source, es[i].target) :
                                  local(ratings[k]) > 0 })

\* C22 witness: an edge of count 2, and an edge whose pair also has a row
\* of local trust 0.
C22_Witness ==
  \E es \in { edges_now } :
    /\ \E i \in 1..Len(es) : es[i].count = 2
    /\ \E i \in 1..Len(es) :
         \E k \in pair_rows(es[i].source, es[i].target) : local(ratings[k]) = 0

\* The rows a request read, as a multiset.
row_bag(rows) ==
  [ row \in { rows[k] : k \in 1..Len(rows) } |->
      Cardinality({ k \in 1..Len(rows) : rows[k] = row }) ]

\* C23: for the same multiset of rating rows and the same users, every
\* trust score and every reputation field is the same whatever order the
\* rows are read in.
C23_PermutationImmunity ==
  (req # None /\ req.op = "rows" /\ row_bag(req.read) = row_bag(ratings)) =>
    \A t1 \in { compute_transitive_trust_scores(ratings, users) } :
      \A t2 \in { compute_transitive_trust_scores(req.read, users) } :
        /\ t1 = t2
        /\ \A u \in users : reputation(ratings, u, t1) = reputation(req.read, u, t2)

\* C23 witness: the rows were read in reverse of the stored order, two of
\* them of one rater and target with different values.
C23_Witness ==
  /\ req # None /\ req.op = "rows"
  /\ req.read = << ratings[3], ratings[2], ratings[1] >>
  /\ ratings[1] # ratings[3]
  /\ ratings[1].rater_id = ratings[3].rater_id
  /\ ratings[1].target_user_id = ratings[3].target_user_id
  /\ ratings[1].rater_id # ratings[1].target_user_id
  /\ local(ratings[1]) > 0 /\ local(ratings[3]) > 0

\* The users with an incoming collapsed edge.
has_incoming(edges, u) == \E p \in DOMAIN edges : p[2] = u

\* C24: every user with at least one incoming collapsed edge has strictly
\* greater trust than every user with none, and the users with none have
\* equal trust.
C24_IncomingEdgeRaisesTrust ==
  users # {} =>
    \A t \in { trust_now } :
      \A edges \in { outgoing_by_idx(ratings, users) } :
        \A u, v \in users :
          /\ (has_incoming(edges, u) /\ ~has_incoming(edges, v)) => t[u] > t[v]
          /\ (~has_incoming(edges, u) /\ ~has_incoming(edges, v)) => t[u] = t[v]

\* C24 witness: the star, users 1 and 3 rate user 2 and nobody else is
\* rated; user 2 is dangling and has more trust than 1 and 3, who are equal.
C24_Witness ==
  /\ users = UserIds
  /\ DOMAIN outgoing_by_idx(ratings, users) = { << 1, 2 >>, << 3, 2 >> }
  /\ \A t \in { trust_now } : t[2] > t[1] /\ t[1] = t[3]

\* The table is a ring: every user wrote exactly one row, every user is the
\* target of exactly one row, no row is a self-rating, the rows form one
\* cycle, and all rows carry the same values with would_work_again true.
is_ring ==
  /\ Len(ratings) = Cardinality(users)
  /\ \A u \in users :
       /\ Cardinality({ k \in 1..Len(ratings) : ratings[k].rater_id = u }) = 1
       /\ Cardinality({ k \in 1..Len(ratings) : ratings[k].target_user_id = u }) = 1
  /\ \A k \in 1..Len(ratings) :
       /\ ratings[k].rater_id # ratings[k].target_user_id
       /\ ratings[k].would_work_again
       /\ ratings[k].contribution = ratings[1].contribution
       /\ ratings[k].communication = ratings[1].communication
       /\ ratings[k].contribution # None /\ ratings[k].communication # None

\* C25: in a ring of equal rows (c, k, true) all trust components are
\* equal and every user's reputation is contribution_avg = c,
\* communication_avg = k, would_work_again_ratio = 1, rating_count = 1.
C25_RingIsSymmetric ==
  (is_ring /\ req # None /\ req.op = "users" /\ req.step = "done") =>
    /\ \A u, v \in users : req.trust_scores[u] = req.trust_scores[v]
    /\ \A u \in users :
         /\ req.out[1][u].contribution_avg = 100 * ratings[1].contribution[1]
         /\ req.out[1][u].communication_avg = 100 * ratings[1].communication[1]
         /\ req.out[1][u].would_work_again_ratio = << 1, 1 >>
         /\ req.out[1][u].rating_count = 1

\* C25 witness: the ring 1 -> 2 -> 3 -> 1 with contribution 8 and
\* communication 6 has been answered.
C25_Witness ==
  /\ is_ring /\ req # None /\ req.op = "users" /\ req.step = "done"
  /\ ratings[1].target_user_id = 2
  /\ ratings[1].contribution = Some(8) /\ ratings[1].communication = Some(6)
  /\ req.out[1][1].contribution_avg = 800

\* The loop of the trust computation over the current table, run for at
\* most `limit` passes from the uniform vector: its final state.
loop_run(limit) ==
  The({ iterate([ t |-> t0, done |-> FALSE, passes |-> 0 ], users, edges, osum, limit) :
        t0 \in { Table([ i \in users |-> Scale \div Cardinality(users) ], users) },
        edges \in { outgoing_by_idx(ratings, users) },
        osum \in { outgoing_sum(outgoing_by_idx(ratings, users), users) } })

\* C26: the trust iteration makes at most max_iter passes, stops before
\* that exactly at the first pass whose L1 change is below tol, and in both
\* cases the result is the last vector renormalized, also when tol was not
\* reached.
C26_IterationTerminates ==
  users # {} =>
    \A r \in { loop_run(MaxIter) } :
      /\ r.passes >= 1 /\ r.passes <= MaxIter
      /\ r.passes < MaxIter => r.done
      /\ \A before \in { loop_run(r.passes - 1) } :
           before.passes = r.passes - 1 /\ ~before.done
      /\ \A t \in { trust_now } : DOMAIN t = users /\ t = renormalize(r.t, users)

\* C26 witness: a table on which the loop made all max_iter passes without
\* the change falling below tol, and the vector was returned.
C26_Witness ==
  /\ users # {}
  /\ \A r \in { loop_run(MaxIter) } : r.passes = MaxIter /\ ~r.done
  /\ DOMAIN trust_now = users

\* C27: once a team is locked no step adds a member to it: every step
\* leaves the members of a locked team as they were.
C27_LockedTeamKeepsMembers ==
  [][ \A t \in 1..Len(teams) :
        teams[t].locked => (t <= Len(teams') /\ teams'[t].members = teams[t].members) ]_vars

\* C27 witness: a locked team of two, with a pending invitation and a
\* pending join request of users who are not members.
C27_Witness ==
  \E t \in 1..Len(teams) :
    /\ teams[t].locked /\ Len(teams[t].members) = 2
    /\ \E i \in 1..Len(invitations) :
         /\ invitations[i].team_id = t /\ invitations[i].status = "pending"
         /\ invitations[i].target_user_id \notin member_ids(t)
    /\ \E j \in 1..Len(join_requests) :
         /\ join_requests[j].team_id = t /\ join_requests[j].status = "pending"
         /\ join_requests[j].requester_id \notin member_ids(t)

\* C30: once a lobby is finished no step adds a member to its team: every
\* step leaves the members of the team of a finished lobby as they were.
C30_FinishedLobbyKeepsMembers ==
  [][ \A t \in 1..Len(teams) :
        lobbies[teams[t].lobby_id].finished =>
          (t <= Len(teams') /\ teams'[t].members = teams[t].members) ]_vars

\* The accounts a login request's e-mail and password are those of.
holders(email_in, password) ==
  { u \in users : /\ strip(email_in) # << >>
                  /\ accounts[u].email = strip(email_in)
                  /\ check_password_hash(accounts[u].password_hash, password) }

\* The session comes to identify a user only in a login or a registration
\* given that user's e-mail and matching password.
session_set_by_login ==
  (session' # session /\ session' # NoUser) =>
    /\ req'.op \in { "login", "register" }
    /\ session' \in users'
    /\ accounts'[session'].email = strip(req'.email)
    /\ check_password_hash(accounts'[session'].password_hash, req'.password)

\* It identifies that user until a logout, or a login or registration of
\* another.
session_kept_until_logout ==
  (session # NoUser /\ session' # session) => req'.op \in { "logout", "login", "register" }

\* A login with the e-mail and the password of an account makes the session
\* identify that account.
login_identifies_holder ==
  req'.op = "login" =>
    \A u \in holders(req'.email, req'.password) : session' = u

\* A login with an unknown e-mail or a wrong password is refused and leaves
\* the session as it was: without a user if it had none.
failed_login_leaves_session ==
  (req'.op = "login" /\ holders(req'.email, req'.password) = { }) =>
    /\ session' = session
    /\ req'.accept_json => req'.status \in { 400, 401 }

\* GET /me with Accept: application/json.
me_answers_for_session ==
  (req'.op = "me" /\ req'.accept_json) =>
    /\ req'.status = 401 <=> session = NoUser
    /\ session # NoUser => (req'.status = 200 /\ req'.user = session)

\* C28: a session identifies a user only after a login with that user's
\* e-mail and matching password (or a registration) and until logout; a
\* login with the e-mail and password an account was created with makes
\* the session identify that account, so that GET /me answers 200 with it;
\* a login with a wrong password or an unknown e-mail leaves the session
\* without a user; GET /me (JSON) answers 401 whenever the session has no
\* user.
C28_SessionIdentifiesUser ==
  [][ /\ session_set_by_login
      /\ session_kept_until_logout
      /\ login_identifies_holder
      /\ failed_login_leaves_session
      /\ me_answers_for_session ]_vars

\* The users without outgoing weight in the table, and the sum of a vector.
dangling == { i \in users : outgoing_sum(outgoing_by_idx(ratings, users), users)[i][1] <= 0 }
mass(t) == RSumOver(t, users)

\* C29: a pass of the power iteration conserves the total mass: from a
\* vector that sums to 1, the next vector (the personalization share, the
\* dangling share and the flow along the edges) sums to 1 as well.
C29_PassConservesMass ==
  (req.new_t # None /\ mass(req.t) = Rat(1, 1)) => mass(req.new_t[1]) = Rat(1, 1)

\* A pass has been made over a table with an edge, from a vector that gives
\* mass to a user without outgoing ratings and to a user with some.
C29_Witness ==
  /\ req.new_t # None
  /\ mass(req.t) = Rat(1, 1)
  /\ \E i \in dangling : req.t[i][1] > 0
  /\ \E i \in users \ dangling : req.t[i][1] > 0

\* The session's user is the leader of the lobby.
leads_lobby(lobby_id) ==
  get_current_user # NoUser /\ get_current_user = lobbies[lobby_id].leader_id

\* C31: a team's locked flag and a lobby's finished flag change only
\* through a request made by the logged-in leader of that lobby; a request
\* by anyone else leaves both flags as they were.
C31_OnlyLeaderChangesFlags ==
  [][ /\ \A l \in 1..Len(lobbies) :
           lobbies'[l].finished # lobbies[l].finished => leads_lobby(l)
      /\ \A t \in 1..Len(teams) :
           teams'[t].locked # teams[t].locked => leads_lobby(teams[t].lobby_id) ]_vars

\* The positions of the rows of a triple in a table, and the rows of the
\* other triples in their order.
triple_rows(rows, team_id, rater_id, target_user_id) ==
  { k \in 1..Len(rows) : /\ rows[k].team_id = team_id
                         /\ rows[k].rater_id = rater_id
                         /\ rows[k].target_user_id = target_user_id }

other_rows(rows, team_id, rater_id, target_user_id) ==
  SelectSeq(rows, LAMBDA r : ~(/\ r.team_id = team_id
                               /\ r.rater_id = rater_id
                               /\ r.target_user_id = target_user_id))

\* What the claim says of a submission by `user` for `target` with values
\* v: the first row of the triple holds the new values, no other row of
\* the triple is left, and the rows of the other triples are as they were;
\* without a row of the triple, one row is added.
rewritten(user, target, v) ==
  LET row == Rating(1, user, target, Some(v[1]), Some(v[2]), v[3])
      old == triple_rows(ratings, 1, user, target)
  IN  IF old = { }
      THEN ratings' = Append(ratings, row)
      ELSE /\ \A first \in old :
                (\A k \in old : first <= k) => ratings'[first] = row
           /\ Cardinality(triple_rows(ratings', 1, user, target)) = 1
           /\ Len(ratings') = Len(ratings) - (Cardinality(old) - 1)
           /\ other_rows(ratings', 1, user, target) = other_rows(ratings, 1, user, target)

\* C32: a submission of rate_member_page for a triple that has k >= 1 rows
\* updates the first of them in place, deletes the other k-1 and leaves
\* the rows of every other triple as they were; with k = 0 it inserts
\* exactly one row.
C32_RewriteKeepsFirst ==
  [][ \A user \in users, target \in users, v \in FormValues :
        rate_member_page(user, 1, target, v) => rewritten(user, target, v) ]_vars

\* A table that held two rows of the triple, around a row of another
\* triple, now holds the new values in the first row's place and the other
\* triple's row.
C32_Witness ==
  /\ Len(req.before) = 3
  /\ triple_rows(req.before, 1, 2, 1) = { 1, 3 }
  /\ Len(ratings) = 2
  /\ ratings[1] = Rating(1, 2, 1, Some(7), Some(10), TRUE)
  /\ ratings[2] = req.before[2]

\* The team of a join request is closed: its lobby is finished or the team
\* is locked.
request_closed(k) ==
  lobbies[join_requests[k].lobby_id].finished \/ teams[join_requests[k].team_id].locked

\* A step in which the session's user decides a join request, through the
\* page or the JSON endpoint.
decision_step(lobby_id, request_id, decision) ==
  /\ get_current_user # NoUser
  /\ \/ decide_join_request_page(get_current_user, lobby_id, request_id, decision)
     \/ api_decide_join_request(get_current_user, lobby_id, request_id, decision)

\* C33: a join request changes status only from pending, only by a
\* decision of the leader of its lobby, and only to accepted or rejected;
\* once decided it never changes again; a decision made while the lobby is
\* finished or the team is locked leaves the request pending and the
\* members as they were.
C33_JoinRequestDecidedOnceByLeader ==
  [][ /\ \A k \in 1..Len(join_requests) :
           join_requests'[k].status # join_requests[k].status =>
             /\ join_requests[k].status = "pending"
             /\ join_requests'[k].status \in { "accepted", "rejected" }
             /\ leads_lobby(join_requests[k].lobby_id)
             /\ ~request_closed(k)
             /\ \E decision \in { "accept", "reject" } :
                  decision_step(join_requests[k].lobby_id, k, decision)
      /\ \A t \in 1..Len(teams) :
           (lobbies[teams[t].lobby_id].finished \/ teams[t].locked) =>
             teams'[t].members = teams[t].members ]_vars

\* One join request has been rejected and a later one of the same user
\* accepted, and the lobby has been finished since.
C33_Witness ==
  /\ Len(join_requests) = 2
  /\ join_requests[1].status = "rejected"
  /\ join_requests[2].status = "accepted"
  /\ join_requests[2].requester_id \in member_ids(join_requests[2].team_id)
  /\ lobbies[1].finished

\* No two pending join requests of one requester for one lobby.
one_pending_per_requester ==
  \A i \in 1..Len(join_requests), j \in 1..Len(join_requests) :
    (/\ i # j
     /\ join_requests[i].status = "pending" /\ join_requests[j].status = "pending"
     /\ join_requests[i].lobby_id = join_requests[j].lobby_id)
    => join_requests[i].requester_id # join_requests[j].requester_id

\* A join request created by a step is pending, of a user who was not a
\* member, for a lobby that was not finished and a team that was not
\* locked.
created_request_was_allowed ==
  \A k \in (Len(join_requests) + 1)..Len(join_requests') :
    LET jr == join_requests'[k] IN
    /\ jr.status = "pending"
    /\ jr.requester_id \notin member_ids(jr.team_id)
    /\ ~lobbies[jr.lobby_id].finished
    /\ ~teams[jr.team_id].locked

\* C34: after any sequence of submissions there is at most one pending
\* join request per lobby and requester, and a submission by a member, for
\* a finished lobby or for a locked team creates no join request.
C34_OnePendingJoinRequest ==
  [](one_pending_per_requester) /\ [][created_request_was_allowed]_vars

\* A user whose first request was rejected has submitted a second one,
\* which is pending.
C34_Witness ==
  /\ Len(join_requests) = 2
  /\ join_requests[1].requester_id = join_requests[2].requester_id
  /\ join_requests[1].lobby_id = join_requests[2].lobby_id
  /\ join_requests[1].status = "rejected"
  /\ join_requests[2].status = "pending"

\* C35: in every reachable state the requester of every accepted join
\* request and the target of every accepted invitation is a member of the
\* request's or the invitation's team.
C35_AcceptedIsMember ==
  /\ \A k \in 1..Len(join_requests) :
       join_requests[k].status = "accepted" =>
         join_requests[k].requester_id \in member_ids(join_requests[k].team_id)
  /\ \A k \in 1..Len(invitations) :
       invitations[k].status = "accepted" =>
         invitations[k].target_user_id \in member_ids(invitations[k].team_id)

\* A join request and an invitation of two users have been accepted.
C35_Witness ==
  \E j \in 1..Len(join_requests), i \in 1..Len(invitations) :
    /\ join_requests[j].status = "accepted"
    /\ invitations[i].status = "accepted"
    /\ join_requests[j].requester_id # invitations[i].target_user_id
    /\ Len(teams[1].members) = 3

\* C37: no step sets a lobby's finished flag or a team's locked flag back
\* to false, removes a lobby or a team, or removes a member of a team: the
\* members after a step are the members before it, followed by those
\* added.
C37_FlagsAndMembersOnlyGrow ==
  [][ /\ Len(lobbies') >= Len(lobbies) /\ Len(teams') >= Len(teams)
      /\ \A l \in 1..Len(lobbies) :
           /\ lobbies[l].finished => lobbies'[l].finished
           /\ lobbies'[l].leader_id = lobbies[l].leader_id
      /\ \A t \in 1..Len(teams) :
           /\ teams[t].locked => teams'[t].locked
           /\ teams'[t].lobby_id = teams[t].lobby_id
           /\ Len(teams'[t].members) >= Len(teams[t].members)
           /\ SubSeq(teams'[t].members, 1, Len(teams[t].members)) = teams[t].members ]_vars

\* A finished lobby with a locked team of two, one of whose invitations
\* has been rejected.
C37_Witness ==
  /\ Len(lobbies) = 1 /\ lobbies[1].finished
  /\ teams[1].locked /\ Len(teams[1].members) = 2
  /\ \E k \in 1..Len(invitations) : invitations[k].status = "rejected"

\* C38: a team never holds two membership rows of one user, also when two
\* acceptances for the user interleave between add_member's membership
\* test and the commit.
C38_NoDoubleMembership ==
  \A t \in 1..Len(teams) :
    \A i \in 1..Len(teams[t].members), j \in 1..Len(teams[t].members) :
      i # j => teams[t].members[i] # teams[t].members[j]

\* C36: every user's trust score is positive and at least (1 - damping)/n,
\* to within two grid units 1/Scale, for every rating table; and every
\* rating row of an existing user for another existing user weighs
\* positively in the reputation of its target.
C36_TrustIsPositive ==
  \A t \in { trust_now } :
    /\ \A u \in users :
         /\ t[u] > 0
         /\ (t[u] + 2) * Cardinality(users) * DampDen >= (DampDen - DampNum) * Scale
    /\ \A k \in 1..Len(ratings) :
         LET row == ratings[k] IN
         (/\ row.rater_id \in users /\ row.target_user_id \in users
          /\ row.rater_id # row.target_user_id)
         => \A b \in { by_rater(ratings, row.target_user_id) } :
              /\ row.rater_id \in DOMAIN b
              /\ rater_weight(t, row.rater_id, b[row.rater_id]) > 0

\* A user whom no row rates, beside two users who rate each other with
\* rows of local trust 0 and of full local trust.
C36_Witness ==
  /\ users = UserIds
  /\ Len(ratings) = 2
  /\ ratings[1].rater_id = 1 /\ ratings[1].target_user_id = 2
  /\ ratings[1].contribution = Some(0) /\ ~ratings[1].would_work_again
  /\ ratings[2].rater_id = 2 /\ ratings[2].target_user_id = 1
  /\ ratings[2].contribution = Some(10)
  /\ \A t \in { trust_now } : t[3] < t[1] /\ t[2] <= t[3]

\* The (rater, target) pairs of the /api/graph edges with their weights, and
\* the collapsed edges the trust iteration runs over, of the current tables.
graph_weights ==
  The({ { << es[i].source, es[i].target, es[i].weight >> : i \in 1..Len(es) } :
        es \in { edges_now } })
trust_weights ==
  The({ { << p[1], p[2], e[p] >> : p \in DOMAIN e } :
        e \in { outgoing_by_idx(ratings, users) } })

\* C39: in every state the handlers reach, the (rater, target) pairs of the
\* /api/graph edges and their weights are the collapsed edges and weights
\* that compute_transitive_trust_scores iterates over.
C39_CollapsersAgree == graph_weights = trust_weights

\* C39 witness: the rating table holds two rows of one pair with different
\* positive local trust, and both collapsers have the pair's edge.
C39_Witness ==
  \E r, t \in users :
    /\ \E j, k \in pair_rows(r, t) : /\ local(ratings[j]) # local(ratings[k])
                                     /\ local(ratings[j]) > 0 /\ local(ratings[k]) > 0
    /\ \E x \in graph_weights : x[1] = r /\ x[2] = t
    /\ \E x \in trust_weights : x[1] = r /\ x[2] = t
====
